---- MODULE Spec2Model ----
(***************************************************************************)
(* essi-ffmpeg: the command builder (FFmpegBuilder<Normal> / <IO>), the    *)
(* process handle (FFmpegCommand), the progress monitor started by         *)
(* start_listen_progress and the conversion of a progress text into an     *)
(* FFmpegProgress, and the download task of auto_download_with_url,        *)
(* translated from src/src/lib.rs; the named channel (Pipe) on unix and    *)
(* windows and the windows PipeListener, translated from src/src/pipe.rs   *)
(* and src/src/pipe/windows.rs.                                            *)
(***************************************************************************)
EXTENDS Integers, Sequences, FiniteSets, TLC

(***************************************************************************)
(* Bounds of the model.                                                    *)
(***************************************************************************)
\* longest inner_args the builder operations are explored to
MaxArgs == 6
\* longest argument vector of inner_command the start calls are explored to
MaxCmdArgs == 4
\* calls of each take accessor explored on one handle
MaxTakes == 2
\* record groups the child writes to the progress channel
MaxRecords == 3
\* reads of the progress channel that return Ok(0), explored per run
MaxIdleReads == 2
\* snapshots a slow caller receives while the queue is under back-pressure
MaxSlowRecvs == 2
\* lines for known keys in one progress text, next to one further line
MaxLines == 4
\* calls of create_pipe_with_path for one path
MaxCreates == 2
\* the most bytes one write or one read of the channel moves
MaxChunk == 2
\* accept calls on one PipeListener
MaxAccepts == 4
\* reads of the progress reader explored on one record group
MaxReads == 2
\* bytes each endpoint of a channel is explored to write
MaxSent == 3
\* chunks of the response body a download is explored to
MaxChunks == 3

\* channel(128)
QueueCapacity == 128
\* `let mut buffer = [0u8; 1024]`
ReadBufferLen == 1024

(***************************************************************************)
(* Input domains.                                                          *)
(***************************************************************************)
Formats == {"flv", "mp4"}
Codecs == {"copy"}
RawArgs == {"-an"}
ArgLists == {<<"-hwaccel", "auto">>}
FilePaths == {"a.flv"}
TempPaths == {"tmp0"}
\* the paths Pipe::create_pipe makes from random_string(), in the order it makes
\* them: each call gets a name no earlier call got
PipeNames == <<"x.pipe", "y.pipe", "z.pipe", "w.pipe">>
PipePaths == {PipeNames[i] : i \in DOMAIN PipeNames}
StdioCfgs == {"piped", "inherit"}
Streams == {"stdin", "stdout", "stderr"}

\* Option<usize>: None is the empty sequence, Some(n) is <<n>>
None == <<>>
Some(n) == <<n>>

VARIABLES
    \* ---- FFmpegBuilder (lib.rs 166-171) ----
    inner_args,        \* Vec<String>
    inserting_offset,  \* Option<usize>
    marker,            \* PhantomData<M>: "Normal" or "IO"
    inner_command,     \* Command: [args, stdin, stdout, stderr]
    builder,           \* "owned" while the builder value exists, "moved" once consumed
    op,                \* the operation that produced this state, with its result
    pipe_out,          \* the caller's out-parameter of *_with_pipe / output: the path it names
    seg_prefix,        \* inner_args as it was when the current stream was declared
    calls,             \* modifier calls made since the declare: <<kind, tokens>>
    spawned,           \* the latest spawn() call: None or Some([ok, argv])
    reader_threads,    \* progress reader threads started by start_listen_progress
    created,           \* the paths of the channels Pipe::create_pipe has created, in order
    progress_pipe,     \* the channel moved into the reader thread: None or Some(path)
    \* ---- FFmpegCommand (lib.rs 94-96) ----
    handle,            \* "none" before spawn, "owned", "moved" into stop/force_stop, "dropped"
    inner_child,       \* Child: [state, status, stdin, stdout, stderr]
    stop_pc,           \* where a stop(self) call stands: "none", "waiting", "returned", "panicked"
    ret,               \* the latest call on the handle and its result
    take_log,          \* per stream, the results of its take accessor so far
    wait_first,        \* wait() was called before the first take_stdin()
    \* ---- progress monitor (lib.rs 190-218) ----
    script,            \* the record groups the child still has to write
    pipe_buf,          \* groups written to the progress channel and not yet read
    writer_open,       \* the child still holds the progress channel open
    reader_pc,         \* reader thread: "listen", "loop", "stopped", "panicked"
    has_ended,         \* the loop variable has_ended
    idle_reads,        \* reads that returned Ok(0)
    last_read,         \* what the latest listener.read returned: "none", "data", "zero", "err"
    parsed,            \* every snapshot the loop parsed, in parse order
    dispatch,          \* the per-record threads still in blocking_send, by parse index
    queue,             \* the mpsc channel(128) between the dispatch threads and the caller
    received,          \* what the caller's Receiver has returned, in order
    \* ---- From<String> for FFmpegProgress (lib.rs 63-92) ----
    block,             \* the lines of the text to parse, by name (see Lines)
    extra_at,          \* 0, or the position in block of a line added to a well-formed block
    ffmpeg_progress,   \* None before the conversion, Some(FFmpegProgress) after it
    \* ---- Pipe (pipe.rs, pipe/windows.rs) ----
    platform,          \* cfg(unix) or cfg(windows)
    objs,              \* the kernel objects made for the path so far: FIFOs / pipe instances
    node,              \* unix: the object the path names in the file system, 0 if none
    pipe,              \* the object of the live Pipe value, 0 if there is none
    create_log,        \* the results of the create_pipe_with_path calls so far
    listener,          \* the stream returned by listen, and the reads made on it
    client,            \* the stream returned by connect_pipe_with_path, and its writes
    \* ---- FFmpeg::auto_download_with_url (lib.rs 496-554) ----
    in_env,            \* is_exist_in_env(): an ffmpeg program is found in the environment
    is_downloaded,     \* is_downloaded(): the file downloaded_ffmpeg_path() exists
    download_ret,      \* what auto_download_with_url returned: "none" before the call,
                       \* "None", "Some" (task handle and receiver) or "Err"
    had_program,       \* get_program() located a program when auto_download_with_url ran
    task_pc,           \* where the spawned task stands, "none" if no task was spawned
    task_ret,          \* the task's result: "none" while it runs, "Ok" or "Err"
    chunks,            \* chunks of the response body received so far
    progress_tx,       \* the FFmpegDownloadProgress values sent on the channel, in order
    progress_rx        \* the caller still holds the Receiver

bvars == <<inner_args, inserting_offset, marker, inner_command, builder, op,
           pipe_out, seg_prefix, calls, spawned, reader_threads, created,
           progress_pipe>>

cvars == <<handle, inner_child, stop_pc, ret, take_log, wait_first>>

pvars == <<script, pipe_buf, writer_open, reader_pc, has_ended, idle_reads,
           last_read, parsed, dispatch, queue, received>>

tvars == <<block, extra_at, ffmpeg_progress>>

ivars == <<platform, objs, node, pipe, create_log, listener, client>>

dvars == <<in_env, is_downloaded, download_ret, had_program, task_pc, task_ret,
           chunks, progress_tx, progress_rx>>

vars == <<bvars, cvars, pvars, tvars, ivars, dvars>>

\* what the operations of one component leave alone
nonb == <<cvars, pvars, tvars, ivars, dvars>>
nonc == <<bvars, pvars, tvars, ivars, dvars>>
nonp == <<bvars, cvars, tvars, ivars, dvars>>
nont == <<bvars, cvars, pvars, ivars, dvars>>
noni == <<bvars, cvars, pvars, tvars, dvars>>
nond == <<bvars, cvars, pvars, tvars, ivars>>

(***************************************************************************)
(* Vec operations                                                          *)
(***************************************************************************)
\* Option::unwrap_or
unwrap_or(o, d) == IF o = None THEN d ELSE o[1]

\* Vec::splice(at..at, toks) / Vec::insert(at, tok); at is 0-based
splice(v, at, toks) == SubSeq(v, 1, at) \o toks \o SubSeq(v, at + 1, Len(v))

(***************************************************************************)
(* FFmpeg::new_with_program                                                *)
(***************************************************************************)
new_with_program ==
    /\ inner_command = [args |-> <<>>, stdin |-> "piped", stdout |-> "piped",
                        stderr |-> "piped"]
    /\ inner_args = <<>>
    /\ inserting_offset = Some(0)
    /\ marker = "Normal"

\* no process handle yet
NoCommand ==
    /\ handle = "none"
    /\ inner_child = None
    /\ stop_pc = "none"
    /\ ret = None
    /\ take_log = [s \in Streams |-> <<>>]
    /\ wait_first = FALSE

\* no progress monitor yet
\* a stream that was not opened yet
NoListener == [st |-> "none", obj |-> 0, got |-> <<>>, ret |-> "none",
               pending |-> FALSE, after_close |-> FALSE]

NoClient == [st |-> "none", obj |-> 0, sent |-> <<>>, early |-> 0]

NoPipe ==
    /\ platform = "unix"
    /\ objs = <<>>
    /\ node = 0
    /\ pipe = 0
    /\ create_log = <<>>
    /\ listener = NoListener
    /\ client = NoClient

\* no download was asked for; a program is at hand
NoDownload ==
    /\ in_env = TRUE
    /\ is_downloaded = FALSE
    /\ download_ret = "none"
    /\ had_program = FALSE
    /\ task_pc = "none"
    /\ task_ret = "none"
    /\ chunks = 0
    /\ progress_tx = <<>>
    /\ progress_rx = FALSE

NoText ==
    /\ block = <<>>
    /\ extra_at = 0
    /\ ffmpeg_progress = None

NoProgress ==
    /\ script = <<>>
    /\ pipe_buf = <<>>
    /\ writer_open = FALSE
    /\ reader_pc = "none"
    /\ has_ended = FALSE
    /\ idle_reads = 0
    /\ last_read = "none"
    /\ parsed = <<>>
    /\ dispatch = {}
    /\ queue = <<>>
    /\ received = <<>>

\* a builder fresh from FFmpeg::new_with_program, nothing started
NewBuilder ==
    /\ new_with_program
    /\ builder = "owned"
    /\ op = <<"new_with_program", "ok">>
    /\ pipe_out = None
    /\ seg_prefix = <<>>
    /\ calls = <<>>
    /\ spawned = None
    /\ reader_threads = 0
    /\ created = <<>>
    /\ progress_pipe = None

InitBuilder ==
    /\ NoDownload
    /\ NewBuilder
    /\ NoCommand
    /\ NoProgress
    /\ NoText
    /\ NoPipe

(***************************************************************************)
(* FFmpegBuilder::into: only the marker changes                            *)
(***************************************************************************)
\* variant of into that keeps the marker
into_same(B) == marker' = marker

into(B) == marker' = B

\* the builder value is consumed and an Err is returned: nothing is left to act on
Consumed(name, res) ==
    /\ builder' = "moved"
    /\ op' = <<name, res>>
    /\ UNCHANGED <<nonb, inner_args, inserting_offset, marker, inner_command, pipe_out,
                   seg_prefix, calls, spawned, reader_threads, created, progress_pipe>>

Normal == builder = "owned" /\ marker = "Normal"
IO == builder = "owned" /\ marker = "IO"

(***************************************************************************)
(* impl FFmpegBuilder<Normal>                                              *)
(***************************************************************************)
\* the path of the channel the next Pipe::create_pipe() makes
new_pipe_path == PipeNames[Len(created) + 1]

\* Pipe::create_pipe() returned Ok: the channel exists at its path
create_pipe ==
    /\ Len(created) < Len(PipeNames)
    /\ created' = Append(created, new_pipe_path)

\* Command::args appends to the arguments the Command already holds
command_args(cmd, a) == [cmd EXCEPT !.args = @ \o a]

\* start(&mut self): inner_command.args(&inner_args); inner_command.spawn()?
start ==
    /\ Normal
    /\ Len(inner_command.args) + Len(inner_args) <= MaxCmdArgs
    /\ inner_command' = command_args(inner_command, inner_args)
    /\ \E ok \in BOOLEAN :
          /\ spawned' = Some([ok |-> ok, argv |-> inner_command'.args])
          /\ op' = <<"start", IF ok THEN "ok" ELSE "err">>
    /\ UNCHANGED <<nonb, inner_args, inserting_offset, marker, builder, pipe_out,
                   seg_prefix, calls, reader_threads, created, progress_pipe>>

\* variant of start_listen_progress that makes the path it puts in the
\* arguments with a second random_string(), not from the channel it created
start_listen_progress_renamed ==
    /\ Normal
    /\ Len(inner_command.args) + Len(inner_args) + 2 <= MaxCmdArgs
    /\ \/ Consumed("start_listen_progress", "err_pipe")
       \/ \E ok \in BOOLEAN :
             /\ create_pipe
             /\ Len(created) + 1 < Len(PipeNames)
             /\ inner_args' = inner_args \o <<"-progress", PipeNames[Len(created) + 2]>>
             /\ progress_pipe' = Some(new_pipe_path)
             /\ reader_threads' = reader_threads + 1
             /\ inner_command' = command_args(inner_command, inner_args')
             /\ spawned' = Some([ok |-> ok, argv |-> inner_command'.args])
             /\ builder' = "moved"
             /\ op' = <<"start_listen_progress", IF ok THEN "ok" ELSE "err">>
             /\ UNCHANGED <<nonb, inserting_offset, marker, pipe_out, seg_prefix, calls>>

\* start_listen_progress(mut self, progress_rx)
start_listen_progress ==
    /\ Normal
    /\ Len(inner_command.args) + Len(inner_args) + 2 <= MaxCmdArgs
    /\ \/ \* Pipe::create_pipe()? fails
          Consumed("start_listen_progress", "err_pipe")
       \/ \E ok \in BOOLEAN :
             /\ create_pipe
             /\ inner_args' = inner_args \o <<"-progress", new_pipe_path>>
             /\ progress_pipe' = Some(new_pipe_path)
             /\ reader_threads' = reader_threads + 1
             /\ inner_command' = command_args(inner_command, inner_args')
             /\ spawned' = Some([ok |-> ok, argv |-> inner_command'.args])
             /\ builder' = "moved"
             /\ op' = <<"start_listen_progress", IF ok THEN "ok" ELSE "err">>
             /\ UNCHANGED <<nonb, inserting_offset, marker, pipe_out, seg_prefix, calls>>

\* variant of inspect_args whose callback takes the list out of the builder
inspect_args_taking ==
    /\ Normal
    /\ op' = <<"inspect_args", inner_args>>
    /\ inner_args' = <<>>
    /\ UNCHANGED <<nonb, inserting_offset, marker, inner_command, builder, pipe_out,
                   seg_prefix, calls, spawned, reader_threads, created, progress_pipe>>

\* inspect_args(self, f): f(&self.inner_args); self
inspect_args ==
    /\ Normal
    /\ op' = <<"inspect_args", inner_args>>
    /\ UNCHANGED <<nonb, inner_args, inserting_offset, marker, inner_command, builder,
                   pipe_out, seg_prefix, calls, spawned, reader_threads, created,
                   progress_pipe>>

Redirect(name, cmd) ==
    /\ Normal
    /\ inner_command' = cmd
    /\ op' = <<name, "ok">>
    /\ UNCHANGED <<nonb, inner_args, inserting_offset, marker, builder, pipe_out,
                   seg_prefix, calls, spawned, reader_threads, created, progress_pipe>>

stdin == \E cfg \in StdioCfgs : Redirect("stdin", [inner_command EXCEPT !.stdin = cfg])

stdout == \E cfg \in StdioCfgs : Redirect("stdout", [inner_command EXCEPT !.stdout = cfg])

stderr == \E cfg \in StdioCfgs : Redirect("stderr", [inner_command EXCEPT !.stderr = cfg])

\* variant of declare that puts the cursor at the start of the list
declare_at_zero(name, flag, path) ==
    /\ inserting_offset' = Some(0)
    /\ inner_args' = inner_args \o <<flag, path>>
    /\ into("IO")
    /\ seg_prefix' = inner_args
    /\ calls' = <<>>
    /\ op' = <<name, "ok">>
    /\ UNCHANGED <<nonb, inner_command, builder, spawned, reader_threads,
                   progress_pipe>>

\* variant of declare that puts the cursor behind the flag token
declare_after_flag(name, flag, path) ==
    /\ inserting_offset' = Some(Len(inner_args) + 1)
    /\ inner_args' = inner_args \o <<flag, path>>
    /\ into("IO")
    /\ seg_prefix' = inner_args
    /\ calls' = <<>>
    /\ op' = <<name, "ok">>
    /\ UNCHANGED <<nonb, inner_command, builder, spawned, reader_threads,
                   progress_pipe>>

\* a declare past its fallible steps: the cursor is set to the current length,
\* then <<flag, path>> is appended, then self.into()
declare(name, flag, path) ==
    /\ inserting_offset' = Some(Len(inner_args))
    /\ inner_args' = inner_args \o <<flag, path>>
    /\ into("IO")
    /\ seg_prefix' = inner_args
    /\ calls' = <<>>
    /\ op' = <<name, "ok">>
    /\ UNCHANGED <<nonb, inner_command, builder, spawned, reader_threads,
                   progress_pipe>>

CanDeclare == Normal /\ Len(inner_args) + 2 <= MaxArgs

input_with_pipe ==
    /\ CanDeclare
    /\ \/ Consumed("input_with_pipe", "err")
       \/ /\ create_pipe
          /\ pipe_out' = Some(new_pipe_path)
          /\ declare("input_with_pipe", "-i", new_pipe_path)

output_with_pipe ==
    /\ CanDeclare
    /\ \/ Consumed("output_with_pipe", "err")
       \/ /\ create_pipe
          /\ pipe_out' = Some(new_pipe_path)
          /\ declare("output_with_pipe", "-y", new_pipe_path)

input_with_file ==
    /\ CanDeclare
    /\ \E p \in FilePaths : declare("input_with_file", "-i", p)
    /\ UNCHANGED <<pipe_out, created>>

output_as_file ==
    /\ CanDeclare
    /\ \E p \in FilePaths : declare("output_as_file", "-y", p)
    /\ UNCHANGED <<pipe_out, created>>

\* input(buffer): create_new(..).open(&path)? and file.write(buffer)? come first
input ==
    /\ CanDeclare
    /\ \/ Consumed("input", "err")
       \/ /\ \E p \in TempPaths : declare("input", "-i", p)
          /\ UNCHANGED <<pipe_out, created>>

\* output(file): *file = Some(open(&path)?) comes first
output ==
    /\ CanDeclare
    /\ \/ Consumed("output", "err")
       \/ \E p \in TempPaths :
             /\ pipe_out' = Some(p)
             /\ declare("output", "-y", p)
             /\ UNCHANGED created

\* Normal::arg pushes at the end, whatever the cursor is
Normal_push(name, toks) ==
    /\ Normal
    /\ Len(inner_args) + Len(toks) <= MaxArgs
    /\ inner_args' = inner_args \o toks
    /\ op' = <<name, "ok">>
    /\ UNCHANGED <<nonb, inserting_offset, marker, inner_command, builder, pipe_out,
                   seg_prefix, calls, spawned, reader_threads, created, progress_pipe>>

Normal_arg == \E a \in RawArgs : Normal_push("arg", <<a>>)

Normal_args == \E as \in ArgLists : Normal_push("args", as)

(***************************************************************************)
(* impl FFmpegBuilder<IO>                                                  *)
(***************************************************************************)
\* variant of IO::arg that leaves the cursor where it is
IO_arg_step_staying(st, tok) ==
    [a |-> splice(st.a, unwrap_or(st.o, Len(st.a)), <<tok>>), o |-> st.o]

\* one IO::arg call on (args, offset): insert at the cursor, advance it by one
IO_arg_step(st, tok) ==
    [a |-> splice(st.a, unwrap_or(st.o, Len(st.a)), <<tok>>),
     o |-> IF st.o = None THEN None ELSE Some(st.o[1] + 1)]

\* IO::args: for arg in args { self = self.arg(arg) }
RECURSIVE IO_args_fold(_, _)
IO_args_fold(st, toks) ==
    IF toks = <<>> THEN st
    ELSE IO_args_fold(IO_arg_step(st, Head(toks)), Tail(toks))

Modifier(name, kind, toks) ==
    /\ IO
    /\ Len(inner_args) + Len(toks) <= MaxArgs
    /\ LET st == IO_args_fold([a |-> inner_args, o |-> inserting_offset], toks)
       IN  /\ inner_args' = st.a
           /\ inserting_offset' = st.o
    /\ calls' = Append(calls, <<kind, toks>>)
    /\ op' = <<name, "ok">>
    /\ UNCHANGED <<nonb, marker, inner_command, builder, pipe_out, seg_prefix, spawned,
                   reader_threads, created, progress_pipe>>

\* variant of format that advances the cursor like arg does
format_advancing ==
    \E f \in Formats : Modifier("format", "format", <<"-f", f>>)

\* format: splice(at..at, ["-f", format]); the cursor is left where it is
format ==
    /\ IO
    /\ Len(inner_args) + 2 <= MaxArgs
    /\ \E f \in Formats :
          /\ inner_args' = splice(inner_args,
                                  unwrap_or(inserting_offset, Len(inner_args)),
                                  <<"-f", f>>)
          /\ calls' = Append(calls, <<"format", <<"-f", f>>>>)
    /\ op' = <<"format", "ok">>
    /\ UNCHANGED <<nonb, inserting_offset, marker, inner_command, builder, pipe_out,
                   seg_prefix, spawned, reader_threads, created, progress_pipe>>

codec_audio == \E c \in Codecs : Modifier("codec_audio", "arg", <<"-c:a", c>>)

codec_video == \E c \in Codecs : Modifier("codec_video", "arg", <<"-c:v", c>>)

IO_arg == \E a \in RawArgs : Modifier("arg", "arg", <<a>>)

IO_args == \E as \in ArgLists : Modifier("args", "arg", as)

done ==
    /\ IO
    /\ inserting_offset' = None
    /\ into("Normal")
    /\ seg_prefix' = <<>>
    /\ calls' = <<>>
    /\ op' = <<"done", "ok">>
    /\ UNCHANGED <<nonb, inner_args, inner_command, builder, pipe_out, spawned,
                   reader_threads, created, progress_pipe>>

NextBuilder ==
    \/ start \/ start_listen_progress \/ inspect_args
    \/ stdin \/ stdout \/ stderr
    \/ input_with_pipe \/ output_with_pipe \/ input_with_file \/ output_as_file
    \/ input \/ output
    \/ Normal_arg \/ Normal_args
    \/ format \/ codec_audio \/ codec_video \/ IO_arg \/ IO_args \/ done

(***************************************************************************)
(* FFmpegCommand: the handle that owns the spawned Child                   *)
(***************************************************************************)
\* Command::spawn with the builder's stdio configuration: a stream handle is
\* kept in the Child only for a stream configured as piped
spawn(cmd) ==
    [state |-> "running", status |-> None,
     stdin |-> IF cmd.stdin = "piped" THEN "Some" ELSE "None",
     stdout |-> IF cmd.stdout = "piped" THEN "Some" ELSE "None",
     stderr |-> IF cmd.stderr = "piped" THEN "Some" ELSE "None"]

\* the state after start() returned Ok(FFmpegCommand { inner_child })
InitCommand ==
    /\ NoDownload
    /\ inner_command \in [args : {<<>>}, stdin : StdioCfgs, stdout : StdioCfgs,
                          stderr : StdioCfgs]
    /\ inner_args = <<>>
    /\ inserting_offset = None
    /\ marker = "Normal"
    /\ builder = "owned"
    /\ op = <<"start", "ok">>
    /\ pipe_out = None
    /\ seg_prefix = <<>>
    /\ calls = <<>>
    /\ spawned = Some([ok |-> TRUE, argv |-> <<>>])
    /\ reader_threads = 0
    /\ created = <<>>
    /\ progress_pipe = None
    /\ handle = "owned"
    /\ inner_child = spawn(inner_command)
    /\ stop_pc = "none"
    /\ ret = <<"start", "ok">>
    /\ take_log = [s \in Streams |-> <<>>]
    /\ wait_first = FALSE
    /\ NoProgress
    /\ NoText
    /\ NoPipe

\* variant of kill that leaves the process alone
kill_noop(c) == c

\* Child::kill: a running process is terminated, one that has exited is left as it is
kill(c) == IF c.state = "running" THEN [c EXCEPT !.state = "killed"] ELSE c

\* variant of Drop that does not kill
Drop_without_kill(c) == c

\* impl Drop for FFmpegCommand: let _ = self.inner_child.kill()
Drop(c) == kill(c)

\* the process ends by itself (end of input, or the quit byte was read)
child_exits ==
    /\ handle # "none"
    /\ inner_child.state = "running"
    /\ inner_child' = [inner_child EXCEPT !.state = "exited"]
    /\ UNCHANGED <<nonc, handle, stop_pc, ret, take_log, wait_first>>

Owned == handle = "owned" /\ stop_pc = "none"

\* variant of take that leaves the value in place
take_keeps(c, s) == <<c[s], c>>

\* Option::take on the stream s of the Child: <<value returned, Child afterwards>>
take(c, s) == <<c[s], [c EXCEPT ![s] = "None"]>>

TakeStream(s) ==
    /\ Owned
    /\ Len(take_log[s]) < MaxTakes
    /\ LET t == take(inner_child, s)
       IN  /\ inner_child' = t[2]
           /\ ret' = <<"take_" \o s, t[1]>>
           /\ take_log' = [take_log EXCEPT ![s] = Append(@, t[1])]
    /\ UNCHANGED <<nonc, handle, stop_pc, wait_first>>

take_stdin == TakeStream("stdin")

take_stdout == TakeStream("stdout")

take_stderr == TakeStream("stderr")

\* Child::wait: drop(self.stdin.take()), then block until the process has ended
child_wait(c) == [c EXCEPT !.stdin = "None", !.status = Some(c.state)]

\* FFmpegCommand::wait(&mut self): blocks until the process has ended, or
\* returns the error of the system call; stdin is closed in both cases
wait ==
    /\ Owned
    /\ \/ /\ inner_child.state # "running"
          /\ inner_child' = child_wait(inner_child)
          /\ ret' = <<"wait", "ok">>
       \/ /\ inner_child' = [inner_child EXCEPT !.stdin = "None"]
          /\ ret' = <<"wait", "err">>
    /\ wait_first' = (wait_first \/ take_log["stdin"] = <<>>)
    /\ UNCHANGED <<nonc, handle, stop_pc, take_log>>

\* variant of stop_write_failed that returns Ok
stop_write_swallowed ==
    /\ inner_child' = Drop([inner_child EXCEPT !.stdin = "None"])
    /\ handle' = "dropped"
    /\ stop_pc' = "returned"
    /\ ret' = <<"stop", "ok", "write_failed">>

\* the write of the quit byte failed: `?` returns the error, self is dropped
stop_write_failed ==
    /\ inner_child' = Drop([inner_child EXCEPT !.stdin = "None"])
    /\ handle' = "dropped"
    /\ stop_pc' = "returned"
    /\ ret' = <<"stop", "err", "write_failed">>

\* stop(mut self), up to the blocking wait
stop ==
    /\ Owned
    /\ IF inner_child.stdin = "None"
       THEN \* expect("Stdin has been taken") panics; unwinding drops self
            /\ inner_child' = Drop(inner_child)
            /\ handle' = "dropped"
            /\ stop_pc' = "panicked"
            /\ ret' = <<"stop", "panic", "stdin_taken">>
       ELSE \/ stop_write_failed
            \/ /\ inner_child' = [inner_child EXCEPT !.stdin = "None"]
               /\ handle' = "moved"
               /\ stop_pc' = "waiting"
               /\ ret' = <<"stop", "blocked", "wrote_q">>
    /\ UNCHANGED <<nonc, take_log, wait_first>>

\* stop, from the return of self.inner_child.wait()? to the return of stop
stop_waited ==
    /\ handle = "moved"
    /\ stop_pc = "waiting"
    /\ \/ \* wait() returned an error: `?` returns it, self is dropped
          /\ inner_child' = Drop(inner_child)
          /\ ret' = <<"stop", "err", "wait_failed">>
       \/ \* wait() returned the exit status; self.force_stop()? kills a process
          \* that was already waited for, which the library reports as Ok or as
          \* an error depending on its version; force_stop drops self
          /\ inner_child.state # "running"
          /\ inner_child' = Drop(kill(child_wait(inner_child)))
          /\ \E r \in {"ok", "err"} : ret' = <<"stop", r, "waited">>
    /\ handle' = "dropped"
    /\ stop_pc' = "returned"
    /\ UNCHANGED <<nonc, take_log, wait_first>>

\* force_stop(mut self): self.inner_child.kill()?, then self is dropped
force_stop ==
    /\ Owned
    /\ inner_child' = Drop(kill(inner_child))
    /\ handle' = "dropped"
    /\ \E r \in (IF inner_child.status = None THEN {"ok"} ELSE {"ok", "err"}) :
          ret' = <<"force_stop", r>>
    /\ UNCHANGED <<nonc, stop_pc, take_log, wait_first>>

\* the handle goes out of scope (scope end, early return, unwinding)
drop_handle ==
    /\ Owned
    /\ inner_child' = Drop(inner_child)
    /\ handle' = "dropped"
    /\ ret' = <<"drop">>
    /\ UNCHANGED <<nonc, stop_pc, take_log, wait_first>>

NextCommand ==
    \/ child_exits
    \/ take_stdin \/ take_stdout \/ take_stderr
    \/ wait \/ stop \/ stop_waited \/ force_stop \/ drop_handle

SpecCommand == InitCommand /\ [][NextCommand]_vars

\* the blocking wait of stop returns once the process has ended
stop_wait_returned == inner_child.state # "running" /\ stop_waited

\* what the code and the system make sure of: a wait on a process that has
\* ended returns. Nothing makes the child exit.
SpecCommandFair == SpecCommand /\ WF_vars(stop_wait_returned)

(***************************************************************************)
(* The progress monitor of start_listen_progress                           *)
(***************************************************************************)
\* the record groups a child writes: 1..n, each ending in progress=continue,
\* the last one in progress=end unless the child is cut short
Scripts ==
    {[i \in 1..n |-> [id |-> i, end |-> (i = n /\ e)]] :
        n \in 0..MaxRecords, e \in BOOLEAN}

\* the state after start_listen_progress returned Ok: the reader thread has been
\* started on the channel named by -progress and the child is running
InitProgress ==
    /\ NoDownload
    /\ inner_command = [args |-> <<"-progress", "x.pipe">>, stdin |-> "piped",
                        stdout |-> "piped", stderr |-> "piped"]
    /\ inner_args = <<"-progress", "x.pipe">>
    /\ inserting_offset = None
    /\ marker = "Normal"
    /\ builder = "moved"
    /\ op = <<"start_listen_progress", "ok">>
    /\ pipe_out = None
    /\ seg_prefix = <<>>
    /\ calls = <<>>
    /\ spawned = Some([ok |-> TRUE, argv |-> <<"-progress", "x.pipe">>])
    /\ reader_threads = 1
    /\ created = <<"x.pipe">>
    /\ progress_pipe = Some("x.pipe")
    /\ handle = "owned"
    /\ inner_child = spawn(inner_command)
    /\ stop_pc = "none"
    /\ ret = <<"start_listen_progress", "ok">>
    /\ take_log = [s \in Streams |-> <<>>]
    /\ wait_first = FALSE
    /\ script \in Scripts
    /\ pipe_buf = <<>>
    /\ writer_open = TRUE
    /\ reader_pc = "listen"
    /\ has_ended = FALSE
    /\ idle_reads = 0
    /\ last_read = "none"
    /\ parsed = <<>>
    /\ dispatch = {}
    /\ queue = <<>>
    /\ received = <<>>
    /\ NoText
    /\ NoPipe

\* the child writes its next record group to the progress channel
child_writes ==
    /\ writer_open
    /\ script # <<>>
    /\ pipe_buf' = Append(pipe_buf, Head(script))
    /\ script' = Tail(script)
    /\ UNCHANGED <<nonp, writer_open, reader_pc, has_ended, idle_reads, last_read,
                   parsed, dispatch, queue, received>>

\* the child closes the channel: it has written everything, or it was killed
child_closes ==
    /\ writer_open
    /\ writer_open' = FALSE
    /\ UNCHANGED <<nonp, script, pipe_buf, reader_pc, has_ended, idle_reads,
                   last_read, parsed, dispatch, queue, received>>

\* progress_pipe.listen().unwrap()
reader_listen ==
    /\ reader_pc = "listen"
    /\ \E ok \in BOOLEAN : reader_pc' = IF ok THEN "loop" ELSE "panicked"
    /\ UNCHANGED <<nonp, script, pipe_buf, writer_open, has_ended, idle_reads,
                   last_read, parsed, dispatch, queue, received>>

\* FFmpegProgress::from on one group, as far as the monitor looks at it
Snapshot(g) == [id |-> g.id, progress |-> IF g.end THEN "End" ELSE "Continue"]

\* the snapshot of an empty read: every field is None
EmptySnapshot == [id |-> 0, progress |-> "None"]

\* variant of reader_turn: the loop is left as soon as the end group is seen,
\* before its snapshot is handed to a dispatch thread
reader_turn_lossy(g, snap) ==
    /\ has_ended' = (has_ended \/ g.end)
    /\ parsed' = Append(parsed, snap)
    /\ dispatch' = IF g.end THEN dispatch ELSE dispatch \cup {Len(parsed) + 1}
    /\ reader_pc' = IF has_ended' THEN "stopped" ELSE "loop"

\* variant of reader_turn: the loop waits for room on the queue before it goes
\* on to its next read
reader_turn_waiting(g, snap) ==
    /\ Len(queue) < QueueCapacity
    /\ has_ended' = (has_ended \/ g.end)
    /\ parsed' = Append(parsed, snap)
    /\ dispatch' = dispatch \cup {Len(parsed) + 1}
    /\ reader_pc' = IF has_ended' THEN "stopped" ELSE "loop"

\* one turn of `while !has_ended`: the tail of an iteration after read returned
\* the text of group g (has_ended, parse, spawn of the dispatch thread)
reader_turn(g, snap) ==
    /\ has_ended' = (has_ended \/ g.end)
    /\ parsed' = Append(parsed, snap)
    /\ dispatch' = dispatch \cup {Len(parsed) + 1}
    /\ reader_pc' = IF has_ended' THEN "stopped" ELSE "loop"

\* listener.read returned Ok(len) with len > 0
reader_read ==
    /\ reader_pc = "loop"
    /\ pipe_buf # <<>>
    /\ pipe_buf' = Tail(pipe_buf)
    /\ last_read' = "data"
    /\ reader_turn(Head(pipe_buf), Snapshot(Head(pipe_buf)))
    /\ UNCHANGED <<nonp, script, writer_open, idle_reads, queue, received>>

\* listener.read returned Err: `continue`, the loop reads again
reader_read_err ==
    /\ reader_pc = "loop"
    /\ last_read' = "err"
    /\ UNCHANGED <<nonp, script, pipe_buf, writer_open, reader_pc, has_ended,
                   idle_reads, parsed, dispatch, queue, received>>

\* listener.read returned Ok(0): the peer is gone (pipe/windows.rs 79); the
\* iteration goes on with an empty progress_string
reader_read_zero ==
    /\ reader_pc = "loop"
    /\ pipe_buf = <<>>
    /\ ~writer_open
    /\ idle_reads < MaxIdleReads
    /\ idle_reads' = idle_reads + 1
    /\ last_read' = "zero"
    /\ reader_turn([id |-> 0, end |-> FALSE], EmptySnapshot)
    /\ UNCHANGED <<nonp, script, pipe_buf, writer_open, queue, received>>

\* a dispatch thread: ffmpeg_progress_tx.blocking_send(ffmpeg_progress).unwrap()
dispatch_send ==
    /\ Len(queue) < QueueCapacity
    /\ \E t \in dispatch :
          /\ queue' = Append(queue, parsed[t])
          /\ dispatch' = dispatch \ {t}
    /\ UNCHANGED <<nonp, script, pipe_buf, writer_open, reader_pc, has_ended,
                   idle_reads, last_read, parsed, received>>

\* the caller: progress_rx.blocking_recv()
consumer_recv ==
    /\ queue # <<>>
    /\ received' = Append(received, Head(queue))
    /\ queue' = Tail(queue)
    /\ UNCHANGED <<nonp, script, pipe_buf, writer_open, reader_pc, has_ended,
                   idle_reads, last_read, parsed, dispatch>>

NextProgress ==
    \/ child_writes \/ child_closes
    \/ reader_listen \/ reader_read \/ reader_read_err \/ reader_read_zero
    \/ dispatch_send \/ consumer_recv

SpecProgress == InitProgress /\ [][NextProgress]_vars

\* the dispatch threads are OS threads that get to run, and the caller keeps
\* receiving from progress_rx
SpecProgressFair ==
    SpecProgress /\ WF_vars(dispatch_send) /\ WF_vars(consumer_recv)

\* the groups the child writes after k earlier ones
ScriptsAfter(k) ==
    {[i \in 1..n |-> [id |-> k + i, end |-> (i = n /\ e)]] :
        n \in 0..MaxRecords, e \in BOOLEAN}

\* the monitor at the point where the caller has not received anything and the
\* queue is full: the child wrote QueueCapacity progress=continue groups, the
\* loop parsed each and every dispatch thread has completed its blocking_send
InitProgressFull ==
    /\ NoDownload
    /\ inner_command = [args |-> <<"-progress", "x.pipe">>, stdin |-> "piped",
                        stdout |-> "piped", stderr |-> "piped"]
    /\ inner_args = <<"-progress", "x.pipe">>
    /\ inserting_offset = None
    /\ marker = "Normal"
    /\ builder = "moved"
    /\ op = <<"start_listen_progress", "ok">>
    /\ pipe_out = None
    /\ seg_prefix = <<>>
    /\ calls = <<>>
    /\ spawned = Some([ok |-> TRUE, argv |-> <<"-progress", "x.pipe">>])
    /\ reader_threads = 1
    /\ created = <<"x.pipe">>
    /\ progress_pipe = Some("x.pipe")
    /\ handle = "owned"
    /\ inner_child = spawn(inner_command)
    /\ stop_pc = "none"
    /\ ret = <<"start_listen_progress", "ok">>
    /\ take_log = [s \in Streams |-> <<>>]
    /\ wait_first = FALSE
    /\ script \in ScriptsAfter(QueueCapacity)
    /\ pipe_buf = <<>>
    /\ writer_open = TRUE
    /\ reader_pc = "loop"
    /\ has_ended = FALSE
    /\ idle_reads = 0
    /\ last_read = "data"
    /\ parsed = [i \in 1..QueueCapacity |-> [id |-> i, progress |-> "Continue"]]
    /\ dispatch = {}
    /\ queue = parsed
    /\ received = <<>>
    /\ NoText
    /\ NoPipe

\* a caller that receives only now and then
consumer_recv_slow ==
    /\ Len(received) < MaxSlowRecvs
    /\ consumer_recv

\* the steps of the monitor once the reader thread is in its loop, with a slow
\* caller
NextProgressLoop ==
    \/ child_writes \/ child_closes
    \/ reader_read \/ reader_read_err \/ reader_read_zero
    \/ dispatch_send \/ consumer_recv_slow

SpecProgressFull == InitProgressFull /\ [][NextProgressLoop]_vars

(***************************************************************************)
(* Text: a String is the sequence of its characters                        *)
(***************************************************************************)
\* char::is_whitespace, for the characters of the texts explored
Whitespace == {" ", "\t", "\n", "\r"}

DigitChars == {"0", "1", "2", "3", "4", "5", "6", "7", "8", "9"}

DigitVal ==
    ("0" :> 0) @@ ("1" :> 1) @@ ("2" :> 2) @@ ("3" :> 3) @@ ("4" :> 4) @@
    ("5" :> 5) @@ ("6" :> 6) @@ ("7" :> 7) @@ ("8" :> 8) @@ ("9" :> 9)

RECURSIVE trim_start(_)
trim_start(s) ==
    IF s # <<>> /\ Head(s) \in Whitespace THEN trim_start(Tail(s)) ELSE s

RECURSIVE trim_end(_)
trim_end(s) ==
    IF s # <<>> /\ s[Len(s)] \in Whitespace
    THEN trim_end(SubSeq(s, 1, Len(s) - 1))
    ELSE s

\* str::trim
trim(s) == trim_end(trim_start(s))

\* str::find: the 1-based index of the first occurrence of pat in s, 0 if none
find(s, pat) ==
    LET hits == {i \in 1..(Len(s) - Len(pat) + 1) : SubSeq(s, i, i + Len(pat) - 1) = pat}
    IN  IF hits = {} THEN 0 ELSE CHOOSE i \in hits : \A j \in hits : i <= j

\* str::split_once: Some(<<before, after>>) around the first occurrence of pat
split_once(s, pat) ==
    LET i == find(s, pat)
    IN  IF i = 0 THEN None
        ELSE Some(<<SubSeq(s, 1, i - 1), SubSeq(s, i + Len(pat), Len(s))>>)

\* str::split(c), collected
RECURSIVE split(_, _)
split(s, c) ==
    LET i == find(s, <<c>>)
    IN  IF i = 0 THEN <<s>>
        ELSE <<SubSeq(s, 1, i - 1)>> \o split(SubSeq(s, i + 1, Len(s)), c)

RECURSIVE digits_value(_, _)
digits_value(s, acc) ==
    IF s = <<>> THEN acc ELSE digits_value(Tail(s), acc * 10 + DigitVal[Head(s)])

AllDigits(s) == \A i \in 1..Len(s) : s[i] \in DigitChars

\* variant of parse_usize: a malformed value counts as 0
parse_usize_or_zero(s) ==
    LET d == IF s # <<>> /\ Head(s) = "+" THEN Tail(s) ELSE s
    IN  IF d # <<>> /\ AllDigits(d) THEN Some(digits_value(d, 0)) ELSE Some(0)

\* str::parse::<usize>().ok(): an optional + and one or more decimal digits
\* (values stay far below usize::MAX in the texts explored)
parse_usize(s) ==
    LET d == IF s # <<>> /\ Head(s) = "+" THEN Tail(s) ELSE s
    IN  IF d # <<>> /\ AllDigits(d) THEN Some(digits_value(d, 0)) ELSE None

\* a decimal number m / 10^e without trailing zeros in its fraction
RECURSIVE Decimal(_, _)
Decimal(m, e) ==
    IF e > 0 /\ m % 10 = 0 THEN Decimal(m \div 10, e - 1) ELSE [m |-> m, e |-> e]

\* str::parse::<f32>().ok() for texts in plain decimal notation: an optional
\* sign, digits, an optional point and digits, at least one digit in all; the
\* value is kept as the decimal written (the texts explored use no exponent
\* and none of inf, infinity, nan)
parse_f32(s) ==
    LET neg  == s # <<>> /\ Head(s) = "-"
        u    == IF s # <<>> /\ Head(s) \in {"+", "-"} THEN Tail(s) ELSE s
        dot  == find(u, <<".">>)
        int  == IF dot = 0 THEN u ELSE SubSeq(u, 1, dot - 1)
        frac == IF dot = 0 THEN <<>> ELSE SubSeq(u, dot + 1, Len(u))
        ds   == int \o frac
    IN  IF ds # <<>> /\ AllDigits(ds)
        THEN Some(Decimal((IF neg THEN -1 ELSE 1) * digits_value(ds, 0), Len(frac)))
        ELSE None

(***************************************************************************)
(* FFmpegProgressStatus::from_str and From<String> for FFmpegProgress      *)
(***************************************************************************)
K_frame == <<"f", "r", "a", "m", "e">>
K_fps == <<"f", "p", "s">>
K_bitrate == <<"b", "i", "t", "r", "a", "t", "e">>
K_total_size == <<"t", "o", "t", "a", "l", "_", "s", "i", "z", "e">>
K_out_time_us == <<"o", "u", "t", "_", "t", "i", "m", "e", "_", "u", "s">>
K_out_time_ms == <<"o", "u", "t", "_", "t", "i", "m", "e", "_", "m", "s">>
K_dup_frames == <<"d", "u", "p", "_", "f", "r", "a", "m", "e", "s">>
K_drop_frames == <<"d", "r", "o", "p", "_", "f", "r", "a", "m", "e", "s">>
K_speed == <<"s", "p", "e", "e", "d">>
K_progress == <<"p", "r", "o", "g", "r", "e", "s", "s">>

K_kbits == <<"k", "b", "i", "t", "s">>
K_x == <<"x">>
K_continue == <<"c", "o", "n", "t", "i", "n", "u", "e">>
K_end == <<"e", "n", "d">>

\* value.parse::<FFmpegProgressStatus>().ok()
FFmpegProgressStatus_from_str(s) ==
    CASE s = K_continue -> Some("Continue")
      [] s = K_end -> Some("End")
      [] OTHER -> None

\* variant of parse_before: the value is parsed with its unit left on
parse_with_unit(value, unit) ==
    LET vu == split_once(value, unit)
    IN  IF vu = None THEN None ELSE parse_f32(value)

\* split_once(unit).map(|(v, _)| v.parse::<f32>().ok()).flatten()
parse_before(value, unit) ==
    LET vu == split_once(value, unit)
    IN  IF vu = None THEN None ELSE parse_f32(vu[1][1])

Keys == {"frame", "fps", "bitrate", "total_size", "out_time_us", "out_time_ms",
         "dup_frames", "drop_frames", "speed", "progress"}

\* FFmpegProgress::default()
FFmpegProgress_default == [k \in Keys |-> None]

\* the body of `for kv in ffmpeg_kv` for one line
from_line(progress, kv) ==
    LET sp == split_once(kv, <<"=">>)
    IN  IF sp = None THEN progress
        ELSE LET key   == trim(sp[1][1])
                 value == trim(sp[1][2])
             IN  CASE key = K_frame -> [progress EXCEPT !.frame = parse_usize(value)]
                   [] key = K_fps -> [progress EXCEPT !.fps = parse_usize(value)]
                   [] key = K_bitrate ->
                        [progress EXCEPT !.bitrate = parse_before(value, K_kbits)]
                   [] key = K_total_size ->
                        [progress EXCEPT !.total_size = parse_usize(value)]
                   [] key = K_out_time_us ->
                        [progress EXCEPT !.out_time_us = parse_usize(value)]
                   [] key = K_out_time_ms ->
                        [progress EXCEPT !.out_time_ms = parse_usize(value)]
                   [] key = K_dup_frames ->
                        [progress EXCEPT !.dup_frames = parse_usize(value)]
                   [] key = K_drop_frames ->
                        [progress EXCEPT !.drop_frames = parse_usize(value)]
                   [] key = K_speed ->
                        [progress EXCEPT !.speed = parse_before(value, K_x)]
                   [] key = K_progress ->
                        [progress EXCEPT !.progress = FFmpegProgressStatus_from_str(value)]
                   [] OTHER -> progress

RECURSIVE from_lines(_, _)
from_lines(kvs, progress) ==
    IF kvs = <<>> THEN progress
    ELSE from_lines(Tail(kvs), from_line(progress, Head(kvs)))

\* impl From<String> for FFmpegProgress
FFmpegProgress_from(progress) ==
    from_lines(split(progress, "\n"), FFmpegProgress_default)

(***************************************************************************)
(* Inputs of the conversion: the lines of progress texts, each with the    *)
(* key it is for and the value it states                                   *)
(***************************************************************************)
Lines ==
    ("frame" :> [txt |-> <<"f", "r", "a", "m", "e", "=", "1", "2", "0">>,
        key |-> "frame", val |-> Some(120), kind |-> "good"]) @@
    ("fps" :> [txt |-> <<"f", "p", "s", "=", "3", "0">>,
        key |-> "fps", val |-> Some(30), kind |-> "good"]) @@
    ("bitrate" :> [txt |-> <<"b", "i", "t", "r", "a", "t", "e", "=", "5", "1", "2", ".", "0", "k", "b", "i", "t", "s", "/", "s">>,
        key |-> "bitrate", val |-> Some([m |-> 512, e |-> 0]), kind |-> "good"]) @@
    ("total_size" :> [txt |-> <<"t", "o", "t", "a", "l", "_", "s", "i", "z", "e", "=", "1", "0", "2", "4">>,
        key |-> "total_size", val |-> Some(1024), kind |-> "good"]) @@
    ("out_time_us" :> [txt |-> <<"o", "u", "t", "_", "t", "i", "m", "e", "_", "u", "s", "=", "4", "0", "0", "0", "0", "0", "0">>,
        key |-> "out_time_us", val |-> Some(4000000), kind |-> "good"]) @@
    ("out_time_ms" :> [txt |-> <<"o", "u", "t", "_", "t", "i", "m", "e", "_", "m", "s", "=", "4", "0", "0", "0", "0", "0", "0">>,
        key |-> "out_time_ms", val |-> Some(4000000), kind |-> "good"]) @@
    ("dup_frames" :> [txt |-> <<"d", "u", "p", "_", "f", "r", "a", "m", "e", "s", "=", "0">>,
        key |-> "dup_frames", val |-> Some(0), kind |-> "good"]) @@
    ("drop_frames" :> [txt |-> <<"d", "r", "o", "p", "_", "f", "r", "a", "m", "e", "s", "=", "2">>,
        key |-> "drop_frames", val |-> Some(2), kind |-> "good"]) @@
    ("speed" :> [txt |-> <<"s", "p", "e", "e", "d", "=", "1", ".", "5", "x">>,
        key |-> "speed", val |-> Some([m |-> 15, e |-> 1]), kind |-> "good"]) @@
    ("progress" :> [txt |-> <<"p", "r", "o", "g", "r", "e", "s", "s", "=", "c", "o", "n", "t", "i", "n", "u", "e">>,
        key |-> "progress", val |-> Some("Continue"), kind |-> "good"]) @@
    ("progress_end" :> [txt |-> <<"p", "r", "o", "g", "r", "e", "s", "s", "=", "e", "n", "d">>,
        key |-> "progress", val |-> Some("End"), kind |-> "good"]) @@
    ("frame_padded" :> [txt |-> <<" ", "f", "r", "a", "m", "e", " ", "=", " ", "7", "\r">>,
        key |-> "frame", val |-> Some(7), kind |-> "good"]) @@
    ("bitrate_padded" :> [txt |-> <<"b", "i", "t", "r", "a", "t", "e", "=", " ", " ", "6", "4", "k", "b", "i", "t", "s", "/", "s">>,
        key |-> "bitrate", val |-> Some([m |-> 64, e |-> 0]), kind |-> "good"]) @@
    ("frame_abc" :> [txt |-> <<"f", "r", "a", "m", "e", "=", "a", "b", "c">>,
        key |-> "frame", val |-> None, kind |-> "malformed"]) @@
    ("fps_fraction" :> [txt |-> <<"f", "p", "s", "=", "2", "9", ".", "9", "7">>,
        key |-> "fps", val |-> None, kind |-> "malformed"]) @@
    ("bitrate_na" :> [txt |-> <<"b", "i", "t", "r", "a", "t", "e", "=", "N", "/", "A">>,
        key |-> "bitrate", val |-> None, kind |-> "malformed"]) @@
    ("speed_na" :> [txt |-> <<"s", "p", "e", "e", "d", "=", "N", "/", "A">>,
        key |-> "speed", val |-> None, kind |-> "malformed"]) @@
    ("out_time_ms_negative" :> [txt |-> <<"o", "u", "t", "_", "t", "i", "m", "e", "_", "m", "s", "=", "-", "5">>,
        key |-> "out_time_ms", val |-> None, kind |-> "malformed"]) @@
    ("progress_stop" :> [txt |-> <<"p", "r", "o", "g", "r", "e", "s", "s", "=", "s", "t", "o", "p">>,
        key |-> "progress", val |-> None, kind |-> "malformed"]) @@
    ("stream_q" :> [txt |-> <<"s", "t", "r", "e", "a", "m", "_", "0", "_", "0", "_", "q", "=", "2", "8", ".", "0">>,
        key |-> "none", val |-> None, kind |-> "unknown"]) @@
    ("out_time" :> [txt |-> <<"o", "u", "t", "_", "t", "i", "m", "e", "=", "0", "0", ":", "0", "0", ":", "0", "4", ".", "0", "0", "0", "0", "0", "0">>,
        key |-> "none", val |-> None, kind |-> "unknown"]) @@
    ("garbage" :> [txt |-> <<"g", "a", "r", "b", "a", "g", "e">>,
        key |-> "none", val |-> None, kind |-> "noeq"]) @@
    ("empty" :> [txt |-> <<>>,
        key |-> "none", val |-> None, kind |-> "noeq"])

\* the order in which ffmpeg writes the keys of one group
KeyOrder == <<"frame", "fps", "bitrate", "total_size", "out_time_us",
              "out_time_ms", "dup_frames", "drop_frames", "speed", "progress">>

\* lines added to a block: further well-formed lines, malformed values,
\* unknown keys, lines without =
ExtraLines == (DOMAIN Lines) \ Keys

\* the well-formed block with one line for each key of S, in ffmpeg's order
Base(S) == SelectSeq(KeyOrder, LAMBDA k : k \in S)

\* the text of a block: every line ends in a newline
RECURSIVE Text(_)
Text(b) == IF b = <<>> THEN <<>> ELSE Lines[Head(b)].txt \o <<"\n">> \o Text(Tail(b))

InitParse ==
    /\ NoDownload
    /\ NewBuilder
    /\ NoCommand
    /\ NoProgress
    /\ NoPipe
    /\ ffmpeg_progress = None
    /\ \E S \in {T \in SUBSET Keys : Cardinality(T) <= MaxLines} :
          \/ block = Base(S) /\ extra_at = 0
          \/ \E x \in ExtraLines, at \in 0..Cardinality(S) :
                /\ block = splice(Base(S), at, <<x>>)
                /\ extra_at = at + 1

\* FFmpegProgress::from(progress_string)
from ==
    /\ ffmpeg_progress = None
    /\ ffmpeg_progress' = Some(FFmpegProgress_from(Text(block)))
    /\ UNCHANGED <<nont, block, extra_at>>

NextParse == from

SpecParse == InitParse /\ [][NextParse]_vars

(***************************************************************************)
(* The reader loop of start_listen_progress on text (lib.rs 198-217): here *)
(* script and pipe_buf hold characters, parsed holds the values of         *)
(* FFmpegProgress::from                                                    *)
(***************************************************************************)
\* the record groups the child writes: one that goes on, one that ends
Groups == {<<"fps", "progress">>, <<"frame", "progress_end">>}

InitReadText ==
    /\ NoDownload
    /\ NewBuilder /\ NoCommand /\ NoPipe
    /\ extra_at = 0
    /\ ffmpeg_progress = None
    /\ block \in Groups
    /\ script = Text(block)
    /\ pipe_buf = <<>>
    /\ writer_open = TRUE
    /\ reader_pc = "loop"
    /\ has_ended = FALSE
    /\ idle_reads = 0
    /\ last_read = "none"
    /\ parsed = <<>>
    /\ dispatch = {}
    /\ queue = <<>>
    /\ received = <<>>

\* the child writes the next characters of the group to the channel
text_child_writes ==
    /\ writer_open
    /\ \E k \in 1..Len(script) :
          /\ pipe_buf' = pipe_buf \o SubSeq(script, 1, k)
          /\ script' = SubSeq(script, k + 1, Len(script))
    /\ UNCHANGED <<nonp, writer_open, reader_pc, has_ended, idle_reads,
                   last_read, parsed, dispatch, queue, received>>

\* str::ends_with
ends_with(s, suffix) ==
    /\ Len(suffix) <= Len(s)
    /\ SubSeq(s, Len(s) - Len(suffix) + 1, Len(s)) = suffix

\* one iteration of `while !has_ended`, read returning Ok(len) with len > 0:
\* progress_string is a new String, the bytes of this one read are trimmed and
\* pushed to it (the characters are ASCII, which from_utf8_lossy keeps), then
\* ends_with("end") and FFmpegProgress::from(progress_string)
text_reader_read ==
    /\ reader_pc = "loop"
    /\ pipe_buf # <<>>
    /\ Len(parsed) < MaxReads
    /\ LET len             == IF Len(pipe_buf) < ReadBufferLen THEN Len(pipe_buf)
                              ELSE ReadBufferLen
           progress_string == trim(SubSeq(pipe_buf, 1, len))
       IN  /\ pipe_buf' = SubSeq(pipe_buf, len + 1, Len(pipe_buf))
           /\ has_ended' = (has_ended \/ ends_with(progress_string, <<"e", "n", "d">>))
           /\ parsed' = Append(parsed, FFmpegProgress_from(progress_string))
    /\ dispatch' = dispatch \cup {Len(parsed) + 1}
    /\ reader_pc' = IF has_ended' THEN "stopped" ELSE "loop"
    /\ last_read' = "data"
    /\ UNCHANGED <<nonp, script, writer_open, idle_reads, queue, received>>

NextReadText == text_child_writes \/ text_reader_read

SpecReadText == InitReadText /\ [][NextReadText]_vars

(***************************************************************************)
(* Pipe: the named channel (pipe.rs, pipe/windows.rs)                      *)
(***************************************************************************)
Platforms == {"unix", "windows"}

\* the bytes the client writes (pipe.rs 121, the first message of the test)
Msg == <<"b", "e", "l", "l", "o">>

\* a FIFO (unix) or a pipe instance (windows) as the kernel makes it: no bytes
\* in it, no handle open on it, no client end
NewObj == [buf |-> <<>>, held |-> 0, cli |-> "none"]

\* what a prior run can have left at the path of a FIFO: nothing, the FIFO
\* node, or the node with a process that still holds it open and bytes in it
StaleNodes == {<<>>, <<NewObj>>, <<[buf |-> <<"x">>, held |-> 1, cli |-> "none"]>>}

InitPipe ==
    /\ NoDownload
    /\ NewBuilder
    /\ NoCommand
    /\ NoProgress
    /\ NoText
    /\ platform \in Platforms
    /\ objs \in IF platform = "unix" THEN StaleNodes ELSE {<<>>}
    /\ node = Len(objs)
    /\ pipe = 0
    /\ create_log = <<>>
    /\ listener = NoListener
    /\ client = NoClient

\* some handle is open on the object: a pipe instance exists as long as one is
Live(i) == objs[i].held > 0

AnyLive == \E i \in 1..Len(objs) : Live(i)

\* one handle on object i is closed; the last close of a FIFO discards what
\* is still in it
CloseOn(os, i) ==
    [os EXCEPT ![i].held = @ - 1,
               ![i].buf = IF platform = "unix" /\ os[i].held = 1 THEN <<>> ELSE @]

\* variant of create_pipe_with_path: an existing node at the path is kept
create_pipe_keeping_node ==
    /\ Len(create_log) < MaxCreates
    /\ platform = "unix"
    /\ objs' = IF node = 0 THEN Append(objs, NewObj) ELSE objs
    /\ node' = IF node = 0 THEN Len(objs) + 1 ELSE node
    /\ pipe' = node'
    /\ create_log' = Append(create_log, [ok |-> TRUE, live |-> AnyLive])
    /\ UNCHANGED <<noni, platform, listener, client>>

\* Pipe::create_pipe_with_path
\*   unix (pipe.rs 81-91): remove_file(path), result ignored; mkfifo(path)?
\*   windows (pipe.rs 43-50): PipeListener::bind, that is CreateNamedPipeW with
\*   FILE_FLAG_FIRST_PIPE_INSTANCE, which fails while an instance of the name exists
create_pipe_with_path ==
    /\ Len(create_log) < MaxCreates
    /\ IF platform = "windows" /\ AnyLive
       THEN /\ create_log' = Append(create_log, [ok |-> FALSE, live |-> TRUE])
            /\ UNCHANGED <<objs, node, pipe>>
       ELSE /\ objs' = Append(objs, [NewObj EXCEPT
                                       !.held = IF platform = "windows" THEN 1 ELSE 0])
            /\ node' = Len(objs) + 1
            /\ pipe' = Len(objs) + 1
            /\ create_log' = Append(create_log, [ok |-> TRUE, live |-> AnyLive])
    /\ UNCHANGED <<noni, platform, listener, client>>

\* the Pipe value goes out of scope without listen: on windows its
\* PipeListener closes the instance; on unix the node stays at the path
drop_pipe ==
    /\ pipe > 0
    /\ pipe' = 0
    /\ objs' = IF platform = "windows" THEN CloseOn(objs, pipe) ELSE objs
    /\ UNCHANGED <<noni, platform, node, create_log, listener, client>>

\* the object a connect to the path reaches, 0 if there is none: the node at
\* the path (unix), a pipe instance without a client (windows)
Target ==
    IF platform = "unix" THEN node
    ELSE LET free == {i \in 1..Len(objs) : Live(i) /\ objs[i].cli = "none"}
         IN  IF free = {} THEN 0 ELSE CHOOSE i \in free : \A j \in free : i <= j

\* Pipe::connect_pipe_with_path
\*   unix (pipe.rs 97-104): open(path) with read(true).write(true)
\*   windows (windows.rs 22-53): CreateFileW(.., OPEN_EXISTING, ..)
connect_pipe_with_path ==
    /\ client.st = "none"
    /\ IF Target = 0
       THEN /\ client' = [client EXCEPT !.st = "failed"]
            /\ UNCHANGED objs
       ELSE /\ client' = [client EXCEPT !.st = "open", !.obj = Target]
            /\ objs' = [objs EXCEPT ![Target].held = @ + 1, ![Target].cli = "open"]
    /\ UNCHANGED <<noni, platform, node, pipe, create_log, listener>>

\* Pipe::listen(self)
\*   unix (pipe.rs 106-108): connect_pipe_with_path(self.path)
\*   windows (pipe.rs 60-71, windows.rs 203-215): accept, whose
\*   ConnectNamedPipe waits for a client, succeeds at once when one is
\*   connected (ERROR_PIPE_CONNECTED) and fails when it has gone again
listen ==
    /\ pipe > 0
    /\ listener.st = "none"
    /\ pipe' = 0
    /\ IF platform = "unix"
       THEN /\ listener' = [listener EXCEPT !.st = "open", !.obj = node]
            /\ objs' = [objs EXCEPT ![node].held = @ + 1]
       ELSE /\ objs[pipe].cli # "none"
            /\ IF objs[pipe].cli = "open"
               THEN /\ listener' = [listener EXCEPT !.st = "open", !.obj = pipe]
                    /\ UNCHANGED objs
               ELSE /\ listener' = [listener EXCEPT !.st = "failed"]
                    /\ objs' = CloseOn(objs, pipe)
    /\ UNCHANGED <<noni, platform, node, create_log, client>>

\* the client writes the next bytes of Msg (Write::write / write_all); on
\* windows the write needs the server end of the instance to be there
client_write ==
    /\ client.st = "open"
    /\ platform = "windows" => objs[client.obj].held >= 2
    /\ \E k \in 1..MaxChunk :
          /\ Len(client.sent) + k <= Len(Msg)
          /\ LET bytes == SubSeq(Msg, Len(client.sent) + 1, Len(client.sent) + k)
             IN  /\ objs' = [objs EXCEPT ![client.obj].buf = @ \o bytes]
                 /\ client' = [client EXCEPT
                                 !.sent = @ \o bytes,
                                 !.early = IF listener.st = "none" THEN @ + k ELSE @]
    /\ UNCHANGED <<noni, platform, node, pipe, create_log, listener>>

\* the client's stream is dropped: the peer disconnects
client_close ==
    /\ client.st = "open"
    /\ client' = [client EXCEPT !.st = "closed"]
    /\ objs' = [CloseOn(objs, client.obj) EXCEPT ![client.obj].cli = "closed"]
    /\ UNCHANGED <<noni, platform, node, pipe, create_log, listener>>

\* the peer of the listener's stream has disconnected and nothing is left to read
PeerGone ==
    /\ client.st = "closed"
    /\ client.obj = listener.obj
    /\ objs[listener.obj].buf = <<>>

\* the listener calls Read::read on its stream
listener_read_call ==
    /\ listener.st = "open"
    /\ ~listener.pending
    /\ listener' = [listener EXCEPT !.pending = TRUE, !.after_close = PeerGone]
    /\ UNCHANGED <<noni, platform, objs, node, pipe, create_log, client>>

\* variant of fifo_read: the bytes read stay in the channel
fifo_read_peek(buf, k) == <<SubSeq(buf, 1, k), buf>>

\* a read of k bytes: <<the bytes returned, what stays in the channel>>
fifo_read(buf, k) == <<SubSeq(buf, 1, k), SubSeq(buf, k + 1, Len(buf))>>

\* the read returns Ok(k), k > 0: some or all of the bytes in the channel
listener_read_data ==
    /\ listener.pending
    /\ \E k \in 1..MaxChunk :
          /\ k <= Len(objs[listener.obj].buf)
          /\ LET r == fifo_read(objs[listener.obj].buf, k)
             IN  /\ listener' = [listener EXCEPT !.pending = FALSE, !.ret = "data",
                                                 !.got = @ \o r[1]]
                 /\ objs' = [objs EXCEPT ![listener.obj].buf = r[2]]
    /\ UNCHANGED <<noni, platform, node, pipe, create_log, client>>

\* the codes ReadFile can report on the server end once the client end is
\* closed and the instance is empty
ReadFileErrors == {"ERROR_BROKEN_PIPE", "ERROR_PIPE_NOT_CONNECTED"}

\* the read returns without data
\*   unix: read(2) on a FIFO returns 0 only when no descriptor is open for
\*   writing; every descriptor here is opened read+write (pipe.rs 98-100)
\*   windows (windows.rs 77-83): ERROR_PIPE_NOT_CONNECTED => Ok(0), any other
\*   code => Err
listener_read_end ==
    /\ listener.pending
    /\ objs[listener.obj].buf = <<>>
    /\ IF platform = "unix"
       THEN /\ objs[listener.obj].held = 0
            /\ listener' = [listener EXCEPT !.pending = FALSE, !.ret = "zero"]
       ELSE /\ objs[listener.obj].cli = "closed"
            /\ \E code \in ReadFileErrors :
                  listener' = [listener EXCEPT
                      !.pending = FALSE,
                      !.ret = IF code = "ERROR_PIPE_NOT_CONNECTED" THEN "zero" ELSE "err"]
    /\ UNCHANGED <<noni, platform, objs, node, pipe, create_log, client>>

\* the listener's stream is dropped
listener_drop ==
    /\ listener.st = "open"
    /\ ~listener.pending
    /\ listener' = [listener EXCEPT !.st = "closed"]
    /\ objs' = CloseOn(objs, listener.obj)
    /\ UNCHANGED <<noni, platform, node, pipe, create_log, client>>

NextPipe ==
    \/ create_pipe_with_path \/ drop_pipe \/ connect_pipe_with_path \/ listen
    \/ client_write \/ client_close
    \/ listener_read_call \/ listener_read_data \/ listener_read_end
    \/ listener_drop

SpecPipe == InitPipe /\ [][NextPipe]_vars

(***************************************************************************)
(* windows PipeListener: accept cycles on one listener (windows.rs 141-215)*)
(***************************************************************************)
\* PipeListener::bind has returned Ok (windows.rs 189-196): the first
\* instance of the name exists and is the listener's next_pipe
InitListener ==
    /\ NoDownload
    /\ NewBuilder
    /\ NoCommand
    /\ NoProgress
    /\ NoText
    /\ platform = "windows"
    /\ objs = <<[NewObj EXCEPT !.held = 1]>>
    /\ node = 1
    /\ pipe = 1
    /\ create_log = <<[ok |-> TRUE, live |-> FALSE]>>
    /\ listener = NoListener
    /\ client = NoClient

\* variant of accept_call: the pending instance is handed out and no fresh
\* instance is installed in its place
accept_call_no_replace ==
    /\ pipe > 0
    /\ listener.st \in {"none", "closed"}
    /\ Len(objs) <= MaxAccepts
    /\ pipe' = 0
    /\ listener' = [NoListener EXCEPT
                      !.obj = pipe,
                      !.st = CASE objs[pipe].cli = "none" -> "accepting"
                               [] objs[pipe].cli = "open" -> "open"
                               [] OTHER -> "failed"]
    /\ objs' = IF objs[pipe].cli = "closed" THEN CloseOn(objs, pipe) ELSE objs
    /\ UNCHANGED <<noni, platform, node, create_log, client>>

\* PipeListener::accept (windows.rs 204-214) up to where ConnectNamedPipe
\* returns at once or starts to wait: create_pipe(&self.path, false) makes a
\* further instance, mem::replace installs it as next_pipe, and connect_pipe
\* is called on the instance that was pending: a client that is connected
\* gives ERROR_PIPE_CONNECTED => Ok, a client that has gone again gives an
\* error, and the handle of the instance is dropped
accept_call ==
    /\ pipe > 0
    /\ listener.st \in {"none", "closed"}
    /\ Len(objs) <= MaxAccepts
    /\ pipe' = Len(objs) + 1
    /\ listener' = [NoListener EXCEPT
                      !.obj = pipe,
                      !.st = CASE objs[pipe].cli = "none" -> "accepting"
                               [] objs[pipe].cli = "open" -> "open"
                               [] OTHER -> "failed"]
    /\ objs' = Append(IF objs[pipe].cli = "closed" THEN CloseOn(objs, pipe) ELSE objs,
                      [NewObj EXCEPT !.held = 1])
    /\ UNCHANGED <<noni, platform, node, create_log, client>>

\* ConnectNamedPipe returns from its wait: a client has connected to the
\* instance
accept_return ==
    /\ listener.st = "accepting"
    /\ objs[listener.obj].cli # "none"
    /\ listener' = [listener EXCEPT !.st = "open"]
    /\ UNCHANGED <<noni, platform, objs, node, pipe, create_log, client>>

\* the next client: the stream of the one before it has been dropped
client_again ==
    /\ client.st = "closed"
    /\ client' = NoClient
    /\ UNCHANGED <<noni, platform, objs, node, pipe, create_log, listener>>

\* the connection cycles on one listener, without the bytes exchanged on the
\* streams
NextListener ==
    \/ accept_call \/ accept_return
    \/ connect_pipe_with_path \/ client_close \/ client_again
    \/ listener_drop

SpecListener == InitListener /\ [][NextListener]_vars

(***************************************************************************)
(* The two streams of a channel used in both directions: the stream        *)
(* returned by listen and the one returned by connect_pipe_with_path are   *)
(* both `impl Read + Write` (pipe.rs 20-21)                                *)
(***************************************************************************)
Endpoints == {"listener", "client"}

\* what each endpoint writes (windows.rs 259-260, the messages of test basic)
Messages ==
    [listener |-> <<"w", "o", "r", "l", "d", "!">>,
     client   |-> <<"h", "e", "l", "l", "o">>]

\* listen and connect_pipe_with_path have both returned Ok on one channel:
\*   unix: one FIFO, opened read+write by each endpoint (pipe.rs 98-100, 107)
\*   windows: one instance created with PIPE_ACCESS_DUPLEX (windows.rs 153),
\*   which has a buffer for each direction: buf towards the listener, back
\*   towards the client
InitDuplex ==
    /\ NoDownload /\ NewBuilder /\ NoCommand /\ NoProgress /\ NoText
    /\ platform \in Platforms
    /\ objs = <<[buf |-> <<>>, back |-> <<>>, held |-> 2, cli |-> "open"]>>
    /\ node = 1
    /\ pipe = 0
    /\ create_log = <<[ok |-> TRUE, live |-> FALSE]>>
    /\ listener = [NoListener EXCEPT !.st = "open", !.obj = 1]
    /\ client = [st |-> "open", obj |-> 1, sent |-> <<>>, early |-> 0, got |-> <<>>]

\* the bytes an endpoint has written so far, wherever they are now
Written(e) ==
    SelectSeq(objs[1].buf \o objs[1].back \o listener.got \o client.got,
              LAMBDA x : x.by = e)

\* the buffer an endpoint's writes go to: the FIFO's only buffer, or the
\* instance's buffer towards the other end
WritesTo(e) == IF platform = "unix" \/ e = "client" THEN "buf" ELSE "back"

\* the buffer an endpoint's reads take from: the FIFO's only buffer, or the
\* instance's buffer towards this end
ReadsFrom(e) == IF platform = "unix" \/ e = "listener" THEN "buf" ELSE "back"

\* Write::write on the stream of endpoint e: the next bytes of its message
stream_write(e) ==
    /\ Len(Written(e)) < MaxSent
    /\ \E k \in 1..MaxChunk :
          /\ Len(Written(e)) + k <= Len(Messages[e])
          /\ LET bytes == [i \in 1..k |->
                             [by |-> e, at |-> Len(Written(e)) + i,
                              b |-> Messages[e][Len(Written(e)) + i]]]
             IN  objs' = [objs EXCEPT ![1][WritesTo(e)] = @ \o bytes]
    /\ UNCHANGED <<noni, platform, node, pipe, create_log, listener, client>>

\* Read::read on the stream of endpoint e returned Ok(k), k > 0
stream_read(e) ==
    /\ \E k \in 1..MaxChunk :
          /\ k <= Len(objs[1][ReadsFrom(e)])
          /\ LET r == fifo_read(objs[1][ReadsFrom(e)], k)
             IN  /\ objs' = [objs EXCEPT ![1][ReadsFrom(e)] = r[2]]
                 /\ IF e = "listener"
                    THEN /\ listener' = [listener EXCEPT !.got = @ \o r[1], !.ret = "data"]
                         /\ UNCHANGED client
                    ELSE /\ client' = [client EXCEPT !.got = @ \o r[1]]
                         /\ UNCHANGED listener
    /\ UNCHANGED <<noni, platform, node, pipe, create_log>>

NextDuplex == \E e \in Endpoints : stream_write(e) \/ stream_read(e)

SpecDuplex == InitDuplex /\ [][NextDuplex]_vars

(***************************************************************************)
(* FFmpeg::auto_download_with_url and the task it spawns (lib.rs 466-554)  *)
(***************************************************************************)
\* get_program(): "ffmpeg" if it is in the environment, else the downloaded
\* path if that file exists, else None
get_program(env, downloaded) ==
    IF env THEN Some("ffmpeg")
    ELSE IF ~downloaded THEN None
    ELSE Some("ffmpeg/ffmpeg")

InitDownload ==
    /\ NewBuilder /\ NoCommand /\ NoProgress /\ NoText /\ NoPipe
    /\ in_env \in BOOLEAN
    /\ is_downloaded \in BOOLEAN
    /\ download_ret = "none"
    /\ had_program = FALSE
    /\ task_pc = "none"
    /\ task_ret = "none"
    /\ chunks = 0
    /\ progress_tx = <<>>
    /\ progress_rx = FALSE

\* `let _ = progress_tx.send(v).await`: the value is put on the channel unless
\* the Receiver is gone; the result is ignored. (The channel holds 256 values,
\* more than a task sends within the bounds explored.)
send(v) == progress_tx' = IF progress_rx THEN Append(progress_tx, v) ELSE progress_tx

\* auto_download_with_url(url), up to its return
auto_download_with_url ==
    /\ download_ret = "none"
    /\ had_program' = (in_env \/ is_downloaded)
    /\ IF get_program(in_env, is_downloaded) # None
       THEN /\ download_ret' = "None"
            /\ UNCHANGED <<task_pc, progress_rx>>
       ELSE \/ \* reqwest::get(url).await? fails
               /\ download_ret' = "Err"
               /\ UNCHANGED <<task_pc, progress_rx>>
            \/ /\ download_ret' = "Some"
               /\ task_pc' = "spawned"
               /\ progress_rx' = TRUE
    /\ UNCHANGED <<nond, in_env, is_downloaded, task_ret, chunks, progress_tx>>

task_starting ==
    /\ task_pc = "spawned"
    /\ send("Starting")
    /\ task_pc' = "chunks"
    /\ UNCHANGED <<nond, in_env, is_downloaded, download_ret, had_program, task_ret,
                   chunks, progress_rx>>

\* response.chunk().await? returned Some(chunk)
task_chunk ==
    /\ task_pc = "chunks"
    /\ chunks < MaxChunks
    /\ chunks' = chunks + 1
    /\ send("Downloading")
    /\ UNCHANGED <<nond, in_env, is_downloaded, download_ret, had_program, task_pc,
                   task_ret, progress_rx>>

\* the task returns an error from one of its `?`
task_err ==
    /\ task_ret' = "Err"
    /\ task_pc' = "done"

\* response.chunk().await? returned an error
task_chunk_err ==
    /\ task_pc = "chunks"
    /\ task_err
    /\ UNCHANGED <<nond, in_env, is_downloaded, download_ret, had_program, chunks,
                   progress_tx, progress_rx>>

\* response.chunk() returned None: the body is complete
task_extracting ==
    /\ task_pc = "chunks"
    /\ send("Extracting")
    /\ task_pc' = "extract"
    /\ UNCHANGED <<nond, in_env, is_downloaded, download_ret, had_program, task_ret,
                   chunks, progress_rx>>

\* gz.read_to_end, downloaded_ffmpeg_folder or create_dir_all failed, or
\* fs::write failed, before or after it created the file
task_extract_err ==
    /\ task_pc = "extract"
    /\ task_err
    /\ is_downloaded' \in {is_downloaded, TRUE}
    /\ UNCHANGED <<nond, in_env, download_ret, had_program, chunks, progress_tx,
                   progress_rx>>

\* variant of task_write that reports Finished as soon as the file is written
task_write_finishing ==
    /\ task_pc = "extract"
    /\ is_downloaded' = TRUE
    /\ send("Finished")
    /\ task_pc' = "written"
    /\ UNCHANGED <<nond, in_env, download_ret, had_program, task_ret, chunks,
                   progress_rx>>

\* std::fs::write(&ffmpeg_path, binary)? succeeded
task_write ==
    /\ task_pc = "extract"
    /\ is_downloaded' = TRUE
    /\ task_pc' = "written"
    /\ UNCHANGED <<nond, in_env, download_ret, had_program, task_ret, chunks,
                   progress_tx, progress_rx>>

\* cfg(unix): set_permissions(..)? failed
task_permissions_err ==
    /\ task_pc = "written"
    /\ task_err
    /\ UNCHANGED <<nond, in_env, is_downloaded, download_ret, had_program, chunks,
                   progress_tx, progress_rx>>

\* Self::get_program()?.context(..)?; send(Finished); Ok(())
task_finish ==
    /\ task_pc = "written"
    /\ IF get_program(in_env, is_downloaded) # None
       THEN /\ send("Finished")
            /\ task_ret' = "Ok"
       ELSE /\ task_ret' = "Err"
            /\ UNCHANGED progress_tx
    /\ task_pc' = "done"
    /\ UNCHANGED <<nond, in_env, is_downloaded, download_ret, had_program, chunks,
                   progress_rx>>

\* the caller drops the Receiver
drop_progress_rx ==
    /\ progress_rx
    /\ progress_rx' = FALSE
    /\ UNCHANGED <<nond, in_env, is_downloaded, download_ret, had_program, task_pc,
                   task_ret, chunks, progress_tx>>

NextDownload ==
    \/ auto_download_with_url
    \/ task_starting \/ task_chunk \/ task_chunk_err \/ task_extracting
    \/ task_extract_err \/ task_write \/ task_permissions_err \/ task_finish
    \/ drop_progress_rx

SpecDownload == InitDownload /\ [][NextDownload]_vars

Init == InitBuilder

Next == NextBuilder

Spec == Init /\ [][Next]_vars

(***************************************************************************)
(* Properties                                                              *)
(***************************************************************************)
RECURSIVE Flatten(_)
Flatten(ss) == IF ss = <<>> THEN <<>> ELSE Head(ss) \o Flatten(Tail(ss))

RECURSIVE Reverse(_)
Reverse(s) == IF s = <<>> THEN <<>> ELSE Reverse(Tail(s)) \o <<Head(s)>>

RECURSIVE SelectSeqKind(_, _)
SelectSeqKind(cs, fmt) ==
    IF cs = <<>> THEN <<>>
    ELSE (IF (Head(cs)[1] = "format") = fmt THEN <<Head(cs)[2]>> ELSE <<>>)
         \o SelectSeqKind(Tail(cs), fmt)

IsPrefix(a, b) == Len(a) <= Len(b) /\ SubSeq(b, 1, Len(a)) = a

\* the tokens of a block blk stand directly before the flag token of the stream
\* being described, which is followed only by its path
BlockBeforeFlag(blk) ==
    LET n == Len(inner_args)
    IN  /\ n >= Len(blk) + 2
        /\ inner_args[n - 1] \in {"-i", "-y"}
        /\ SubSeq(inner_args, n - 1 - Len(blk), n - 2) = blk

RECURSIVE CallTokens(_)
CallTokens(cs) == IF cs = <<>> THEN <<>> ELSE <<Head(cs)[2]>> \o CallTokens(Tail(cs))

\* C1, as claimed: while a stream is described, the tokens of all modifier calls
\* made since the declare form one contiguous block that ends immediately
\* before the stream's flag token, in the order the modifiers were called.
C1_ModifiersInCallOrder ==
    IO => BlockBeforeFlag(Flatten(CallTokens(calls)))

\* C1, amended: the block ends immediately before the flag token; the tokens of
\* the arg/args/codec calls come first, in call order, and the -f pairs of the
\* format calls follow them, the latest call first.
C1_ModifierBlock ==
    IO => BlockBeforeFlag(Flatten(SelectSeqKind(calls, FALSE))
                          \o Flatten(Reverse(SelectSeqKind(calls, TRUE))))

\* C1 witness: a format call followed by a non-format modifier in one description
C1_FormatThenArg ==
    /\ IO
    /\ Len(calls) >= 2
    /\ calls[1][1] = "format"
    /\ calls[2][1] = "arg"

\* C2, as claimed: the process spawned by start or start_listen_progress gets
\* exactly the builder's accumulated argument list as its argument vector, on
\* every call.
C2_StartPassesArgsVerbatim ==
    (op[1] \in {"start", "start_listen_progress"} /\ op[2] = "ok")
        => spawned[1].argv = inner_args

Declares ==
    {"input", "output", "input_with_file", "output_as_file", "input_with_pipe",
     "output_with_pipe"}

\* C3: the builder is in one of the two modes Normal and IO; a declare that
\* returns a builder goes Normal -> IO, done goes IO -> Normal and nothing else
\* changes the mode; format, codec_audio and codec_video are applied in IO
\* only; start, start_listen_progress, inspect_args, the stdio redirections
\* and the declares are applied in Normal only.
C3_ModeTransitions ==
    /\ marker = "Normal"
    /\ [][ /\ marker' \in {"Normal", "IO"}
           /\ (op'[1] \in Declares /\ op'[2] = "ok")
                 => (marker = "Normal" /\ marker' = "IO")
           /\ op'[1] = "done" => (marker = "IO" /\ marker' = "Normal")
           /\ (marker = "IO" /\ marker' = "Normal") => op'[1] = "done"
           /\ (marker = "Normal" /\ marker' = "IO") => op'[1] \in Declares
           /\ op'[1] \in {"format", "codec_audio", "codec_video"}
                 => (marker = "IO" /\ marker' = "IO")
           /\ op'[1] \in Declares \cup {"start", "start_listen_progress",
                                        "inspect_args", "stdin", "stdout", "stderr"}
                 => marker = "Normal"
         ]_vars

\* C3 witness: a second description opened after a first one was closed by done
C3_SecondDescription ==
    /\ IO
    /\ op[1] \in Declares
    /\ \E i \in 1..Len(seg_prefix) : seg_prefix[i] \in {"-i", "-y"}

\* C4, as claimed: the cursor is set exactly when the builder is in IO mode, and
\* a declare sets it to the index at which the declared segment begins.
C4_CursorSetIffDescribed ==
    builder = "owned"
        => /\ (inserting_offset # None) <=> (marker = "IO")
           /\ (marker = "IO" /\ calls = <<>>)
                 => inserting_offset = Some(Len(seg_prefix))

\* C5: while a stream is described, the tokens that were in the argument list
\* when it was declared are still there, at the same positions.
C5_PrefixUntouched ==
    IO => IsPrefix(seg_prefix, inner_args)

\* C5 witness: modifiers were applied to a stream declared after a finalized one
C5_ModifiedAfterPrefix ==
    /\ IO
    /\ calls # <<>>
    /\ Len(seg_prefix) >= 2
    /\ seg_prefix[1] \in {"-i", "-y"}

\* C6: once the handle is gone, its child process is not running.
C6_NoChildOutlivesHandle ==
    handle = "dropped" => inner_child.state # "running"

\* C6 witness: a handle dropped without wait or stop, its running child killed
C6_DroppedWhileRunning ==
    /\ ret = <<"drop">>
    /\ handle = "dropped"
    /\ inner_child.status = None
    /\ inner_child.state = "killed"

\* C7: when stop has returned, with Ok or with an error, the child is not running.
C7_StopReturnsAfterExit ==
    stop_pc = "returned" => inner_child.state # "running"

\* C7 witness: stop returned after the child exited in answer to the quit byte
C7_StopReturned ==
    /\ stop_pc = "returned"
    /\ ret[1] = "stop"
    /\ ret[3] = "waited"
    /\ inner_child.state = "exited"

\* C8: when the write of the quit byte fails, stop returns that error and the
\* child is not left running.
C8_WriteFailureKills ==
    (Len(ret) = 3 /\ ret[1] = "stop" /\ ret[3] = "write_failed")
        => (ret[2] = "err" /\ handle = "dropped" /\ inner_child.state # "running")

\* C8 witness: the write failed while the child was running, and it was killed
C8_WriteFailedKilled ==
    /\ ret = <<"stop", "err", "write_failed">>
    /\ inner_child.state = "killed"

Piped(s) == inner_command[s] = "piped"

LaterTakesAbsent(s) ==
    \A i \in 2..Len(take_log[s]) : take_log[s][i] = "None"

\* C9, as claimed: for a piped stream the first call of its take accessor
\* returns the stream and every later call returns None.
C9_FirstTakeReturnsStream ==
    \A s \in Streams :
        (Piped(s) /\ take_log[s] # <<>>)
            => (take_log[s][1] = "Some" /\ LaterTakesAbsent(s))

\* C9, amended: as claimed, except that the first take_stdin returns None when
\* wait was called before it; a stream not yet taken is still held by the
\* handle whatever was taken of the other two.
C9_TakeOnce ==
    \A s \in Streams :
        /\ (Piped(s) /\ take_log[s] # <<>>)
              => /\ (take_log[s][1] = "Some") <=> ~(s = "stdin" /\ wait_first)
                 /\ LaterTakesAbsent(s)
        /\ (Piped(s) /\ take_log[s] = <<>> /\ Owned /\ ~(s = "stdin" /\ wait_first))
              => inner_child[s] = "Some"

\* C9 witness: each of the three streams was taken twice
C9_AllTakenTwice ==
    \A s \in Streams : take_log[s] = <<"Some", "None">>

\* C10, as claimed: what the consumer has received is, in order, the beginning
\* of the sequence of snapshots the reader loop parsed.
C10_DeliveredInParseOrder ==
    IsPrefix(received, parsed)

\* everything the monitor has put on the queue so far, in queue order
Emitted == received \o queue

\* C11, as claimed: the snapshot parsed from a group that ends in progress=end
\* has progress End, parsing it stops the reader loop, and it is the last
\* snapshot the monitor puts on the queue.
C11_EndIsLastEmitted ==
    /\ \A i \in 1..Len(parsed) :
          (parsed[i].progress = "End") => (i = Len(parsed) /\ reader_pc = "stopped")
    /\ \A i \in 1..Len(Emitted) :
          (Emitted[i].progress = "End") => (i = Len(Emitted))

EndParsed == \E i \in 1..Len(parsed) : parsed[i].progress = "End"

\* every snapshot parsed is eventually on the queue (or already received from
\* it), given dispatch threads that run and a caller that keeps receiving:
\* again and again, all that was parsed so far has been put on the queue
EveryParsedEmitted == []<>(Len(Emitted) = Len(parsed))

C13_ClosedChannelEndsLoop ==
    (last_read \in {"zero", "err"}) => (reader_pc = "stopped")

\* C14: the reader loop never waits on the queue. While the queue holds
\* QueueCapacity snapshots no dispatch thread can complete its send, and the
\* loop can still take its next read whenever the channel has data for it.
C14_ReaderNeverWaitsOnQueue ==
    (Len(queue) = QueueCapacity)
        => /\ ~ENABLED dispatch_send
           /\ (reader_pc = "loop" /\ pipe_buf # <<>>) => ENABLED reader_read

\* C14 witness: with the queue full and nothing received, the loop has read
\* and parsed two more groups, whose dispatch threads are waiting, and is
\* about to read a third
C14_ReadOnWithFullQueue ==
    /\ Len(queue) = QueueCapacity
    /\ received = <<>>
    /\ Len(parsed) = QueueCapacity + 2
    /\ Cardinality(dispatch) = 2
    /\ reader_pc = "loop"
    /\ pipe_buf # <<>>

\* C15, as claimed: when start or start_listen_progress returns the error of
\* a failed spawn, no progress reader thread has been started.
C15_SpawnErrorStartsNoThread ==
    (op \in {<<"start", "err">>, <<"start_listen_progress", "err">>})
        => /\ spawned # None
           /\ ~spawned[1].ok
           /\ reader_threads = 0

\* the lines of the block that are for key k
LinesFor(k) == {i \in 1..Len(block) : Lines[block[i]].key = k}

\* each known key appears at most once, with a well-formed value, and every
\* line is for a known key
WellFormedBlock ==
    /\ \A i \in 1..Len(block) : Lines[block[i]].kind = "good"
    /\ \A k \in Keys : Cardinality(LinesFor(k)) <= 1

\* C16: parsing a block in which each known key appears at most once with a
\* well-formed value gives a snapshot whose field for each key that appears
\* holds the value its line states, and whose other fields are empty.
C16_FieldsHoldValues ==
    (ffmpeg_progress # None /\ WellFormedBlock)
        => \A k \in Keys :
              ffmpeg_progress[1][k] =
                  IF LinesFor(k) = {} THEN None
                  ELSE Lines[block[CHOOSE i \in LinesFor(k) : TRUE]].val

\* C16 witness: the block frame=120, fps=30, bitrate=512.0kbits/s,
\* progress=continue has been parsed
C16_ExampleParsed ==
    /\ block = <<"frame", "fps", "bitrate", "progress">>
    /\ ffmpeg_progress # None
    /\ ffmpeg_progress[1].frame = Some(120)
    /\ ffmpeg_progress[1].fps = Some(30)
    /\ ffmpeg_progress[1].bitrate = Some([m |-> 512, e |-> 0])
    /\ ffmpeg_progress[1].progress = Some("Continue")
    /\ ffmpeg_progress[1].speed = None

\* the line added to the block, and the block without it
ExtraLine == Lines[block[extra_at]]

WithoutExtra == SubSeq(block, 1, extra_at - 1) \o SubSeq(block, extra_at + 1, Len(block))

\* the conversion has returned, with every field empty or holding a value
Converted ==
    /\ ffmpeg_progress = Some(FFmpegProgress_from(Text(block)))
    /\ \A k \in Keys : Len(ffmpeg_progress[1][k]) \in {0, 1}

\* the fields of the keys other than that of the added line are as they are
\* parsed from the block without the line
OtherKeysAsIfAbsent ==
    \A k \in Keys \ {ExtraLine.key} :
        ffmpeg_progress[1][k] = FFmpegProgress_from(Text(WithoutExtra))[k]

\* C17, as claimed: parsing never fails; a line with a malformed value leaves
\* the field of its key empty, a line with an unknown key or without = changes
\* no field, and the fields of all other keys are parsed as if the line were
\* absent.
C17_BadLineLeavesFieldEmpty ==
    (ffmpeg_progress # None /\ extra_at > 0 /\ ExtraLine.kind # "good")
        => /\ Converted
           /\ OtherKeysAsIfAbsent
           /\ (ExtraLine.kind = "malformed")
                 => ffmpeg_progress[1][ExtraLine.key] = None

\* C17, amended: as claimed, except that the last line for a key decides its
\* field: a malformed value leaves the field empty (also when an earlier line
\* gave it a value) unless a later line of the block is for the same key, and
\* then the field is what that later line gives.
C17_LastLineOfKeyDecides ==
    (ffmpeg_progress # None /\ extra_at > 0 /\ ExtraLine.kind # "good")
        => /\ Converted
           /\ OtherKeysAsIfAbsent
           /\ (ExtraLine.kind = "malformed")
                 => ffmpeg_progress[1][ExtraLine.key] =
                       IF \E i \in LinesFor(ExtraLine.key) : i > extra_at
                       THEN FFmpegProgress_from(Text(WithoutExtra))[ExtraLine.key]
                       ELSE None

\* C17 witness: frame=120, frame=abc, fps=30 has been parsed: frame is empty
\* and fps is 30
C17_MalformedAfterGood ==
    /\ block = <<"frame", "frame_abc", "fps">>
    /\ extra_at = 2
    /\ ffmpeg_progress # None
    /\ ffmpeg_progress[1].frame = None
    /\ ffmpeg_progress[1].fps = Some(30)

\* listener and client are the two ends of one channel
SameChannel ==
    /\ listener.st = "open"
    /\ client.st \in {"open", "closed"}
    /\ client.obj = listener.obj

\* C18: while the client's stream stays open, the bytes the listener has read
\* followed by the bytes still in the channel are exactly the bytes the client
\* has written, in order, whether the client connected and wrote before or
\* after listen.
C18_ListenerReadsWhatClientWrote ==
    (SameChannel /\ client.st = "open")
        => listener.got \o objs[listener.obj].buf = client.sent

\* C18 witness: the client connected and wrote all of Msg before listen was
\* called, its stream is still open, and the listener has read all of it
C18_EarlyWritesRead ==
    /\ SameChannel
    /\ client.st = "open"
    /\ client.early = Len(Msg)
    /\ listener.got = Msg

\* the channel of the live Pipe value is fresh: it is what the path names, it
\* is empty and no stream is open on it, as long as nobody connected to it
Fresh ==
    (pipe > 0 /\ client.obj # pipe /\ listener.obj # pipe)
        => /\ objs[pipe] = [NewObj EXCEPT !.held = IF platform = "windows" THEN 1 ELSE 0]
           /\ platform = "unix" => node = pipe

\* C19, as claimed: a create at a path with a stale node succeeds and leaves
\* a fresh, empty channel, and every further create at the same path succeeds.
C19_CreateAlwaysSucceeds ==
    /\ \A i \in 1..Len(create_log) : create_log[i].ok
    /\ Fresh

\* C19, amended: as claimed on unix; on windows a create succeeds exactly when
\* no instance of the name is open any more, and fails while the Pipe of an
\* earlier create, or a stream of it, is still held.
C19_CreateSucceedsUnlessInstanceHeld ==
    /\ \A i \in 1..Len(create_log) :
          create_log[i].ok <=> ~(platform = "windows" /\ create_log[i].live)
    /\ Fresh

\* C19 witness: a prior run left the FIFO node, still held open with a byte
\* in it; two creates at the path both succeeded and the path names a fresh,
\* empty FIFO
C19_CreatedTwiceOverStale ==
    /\ platform = "unix"
    /\ Len(objs) = 3
    /\ objs[1].buf # <<>>
    /\ Len(create_log) = 2
    /\ create_log[1].ok /\ create_log[2].ok
    /\ pipe = 3 /\ node = 3
    /\ objs[3] = NewObj

\* C20, as claimed: on the listener's stream a read made after the peer has
\* disconnected returns Ok(0): while the call is pending it can return, and
\* once it has returned its result is zero bytes.
C20_ReadAfterDisconnectReturnsZero ==
    (listener.st = "open" /\ listener.after_close)
        => IF listener.pending
           THEN ENABLED listener_read_end
           ELSE listener.ret = "zero"

\* the instances whose server handle the PipeListener itself holds: the
\* server end is open and was not handed out as a stream
Unaccepted ==
    {i \in 1..Len(objs) :
        /\ objs[i].held - (IF client.st = "open" /\ client.obj = i THEN 1 ELSE 0) >= 1
        /\ ~(listener.obj = i /\ listener.st \in {"accepting", "open"})}

\* a client dropped its stream before the listener accepted its instance
LeftEarly ==
    \E i \in 1..Len(objs) :
        /\ objs[i].cli = "closed"
        /\ i = pipe \/ (listener.obj = i /\ listener.st = "failed")

C22_InspectArgsLeavesBuilder ==
    [][op'[1] = "inspect_args"
          => /\ inner_args' = inner_args
             /\ inserting_offset' = inserting_offset
             /\ marker' = marker
             /\ inner_command' = inner_command
             /\ builder' = builder
             /\ op'[2] = inner_args]_vars

C22_InspectedAfterDeclare ==
    /\ op = <<"inspect_args", inner_args>>
    /\ Len(inner_args) >= 3
    /\ inner_command.stdin = "piped"

NonFormat == {"arg", "args", "codec_audio", "codec_video"}

\* C23: a step of arg, args, codec_audio or codec_video on a stream being
\* described inserts the call's tokens at the cursor and moves the cursor past
\* them; so the tokens of these calls stand from the declared position up to
\* the cursor in call order, each call's tokens together (a codec flag directly
\* followed by its codec), and all of them before the stream's flag token.
C23_NonFormatInCallOrder ==
    /\ [](IO => LET blk  == Flatten(SelectSeqKind(calls, FALSE))
                    lo   == Len(seg_prefix)
                    n    == Len(inner_args)
                IN  /\ inserting_offset = Some(lo + Len(blk))
                    /\ SubSeq(inner_args, lo + 1, lo + Len(blk)) = blk
                    /\ lo + Len(blk) <= n - 2
                    /\ inner_args[n - 1] \in {"-i", "-y"})
    /\ [][(marker = "IO" /\ op'[1] \in NonFormat)
             => LET toks == calls'[Len(calls')][2]
                    at   == inserting_offset[1]
                IN  /\ inner_args' = splice(inner_args, at, toks)
                    /\ inserting_offset' = Some(at + Len(toks))]_vars

C23_CodecThenArg ==
    /\ IO
    /\ Len(calls) = 2
    /\ calls[1] = <<"arg", <<"-c:a", "copy">>>>
    /\ calls[2] = <<"arg", <<"-an">>>>
    /\ op[1] = "arg"

\* C24: a step of format puts -f and the format name at the cursor and leaves
\* the cursor where it was, so right after format(x) the two tokens at the
\* cursor are -f and x; the -f pairs of all format calls of a description stay
\* in the list, from the cursor on, the pair of the latest call first.
C24_FormatAtCursor ==
    /\ [](IO => LET pairs == Flatten(Reverse(SelectSeqKind(calls, TRUE)))
                    at    == inserting_offset[1]
                IN  /\ SubSeq(inner_args, at + 1, at + Len(pairs)) = pairs
                    /\ op[1] = "format"
                          => /\ inner_args[at + 1] = "-f"
                             /\ <<inner_args[at + 1], inner_args[at + 2]>>
                                   = calls[Len(calls)][2])
    /\ [][op'[1] = "format"
             => /\ inserting_offset' = inserting_offset
                /\ inner_args' = splice(inner_args, inserting_offset[1],
                                        calls'[Len(calls')][2])]_vars

C24_TwoFormats ==
    /\ IO
    /\ op[1] = "format"
    /\ Len(calls) = 2
    /\ calls[1] = <<"format", <<"-f", "flv">>>>
    /\ calls[2] = <<"format", <<"-f", "mp4">>>>
    /\ SubSeq(inner_args, inserting_offset[1] + 1, inserting_offset[1] + 4)
          = <<"-f", "mp4", "-f", "flv">>

\* the whole group has reached the reader
GroupRead == script = <<>> /\ pipe_buf = <<>> /\ parsed # <<>>

\* C25, as claimed: once the reader has read all characters of a record group,
\* in however many reads they arrived, a snapshot it parsed has every field of
\* the group, and the loop has ended if the group ends with progress=end.
C25_SplitGroupParsedWhole ==
    GroupRead
        => /\ \E i \in 1..Len(parsed) : parsed[i] = FFmpegProgress_from(Text(block))
           /\ block[Len(block)] = "progress_end" => has_ended

Range(f) == {f[i] : i \in DOMAIN f}

\* the channel paths among the tokens of an argument vector
ChannelPaths(argv) == Range(argv) \cap PipePaths

LastTwo(v) == SubSeq(v, Len(v) - 1, Len(v))

\* C26: the channel paths in the argument vector of a spawn are paths of
\* channels created before it; start_listen_progress appends -progress and the
\* path of a channel it has just created at the end of the arguments, and that
\* channel is the one its reader thread listens on; input_with_pipe and
\* output_with_pipe append the path of the channel they store in the caller's
\* out-parameter, a channel they have just created.
C26_ChannelPathsNameChannels ==
    /\ [](/\ spawned # None => ChannelPaths(spawned[1].argv) \subseteq Range(created)
          /\ (op[1] = "start_listen_progress" /\ op[2] \in {"ok", "err"})
                => /\ progress_pipe = Some(created[Len(created)])
                   /\ LastTwo(spawned[1].argv) = <<"-progress", progress_pipe[1]>>
          /\ op = <<"input_with_pipe", "ok">>
                => /\ pipe_out = Some(created[Len(created)])
                   /\ LastTwo(inner_args) = <<"-i", pipe_out[1]>>
          /\ op = <<"output_with_pipe", "ok">>
                => /\ pipe_out = Some(created[Len(created)])
                   /\ LastTwo(inner_args) = <<"-y", pipe_out[1]>>)
    /\ [][(op'[1] = "start_listen_progress" /\ op'[2] \in {"ok", "err"})
             => /\ Len(created') = Len(created) + 1
                /\ inner_args' = inner_args \o <<"-progress", progress_pipe'[1]>>]_vars

C26_ProgressAfterPipedInput ==
    /\ op = <<"start_listen_progress", "ok">>
    /\ created = <<"x.pipe", "y.pipe">>
    /\ pipe_out = Some("x.pipe")
    /\ progress_pipe = Some("y.pipe")
    /\ spawned[1].argv = <<"-i", "x.pipe", "-progress", "y.pipe">>

\* C27, as claimed: a stop call that has written the quit byte eventually
\* returns, whatever the child does.
C27_StopEventuallyReturns ==
    (stop_pc = "waiting") ~> (stop_pc = "returned")

\* C28, as claimed: a stop call on a handle that holds no stdin stream (taken
\* by the caller, or not piped) returns a result, Ok or an error, and the
\* child is not running afterwards.
C28_StopWithoutStdinReports ==
    (Len(ret) = 3 /\ ret[1] = "stop" /\ ret[3] = "stdin_taken")
        => /\ stop_pc = "returned"
           /\ ret[2] \in {"ok", "err"}
           /\ inner_child.state # "running"

\* everything a task that receives n chunks sends when nothing fails
Wanted(n) ==
    <<"Starting">> \o [i \in 1..n |-> "Downloading"] \o <<"Extracting", "Finished">>

\* C29: the values the task has sent are, in order, Starting, one Downloading
\* for each chunk, Extracting, Finished, up to where the task stands (or up to
\* where the Receiver was dropped); Finished is sent only with the file written
\* and a program located by get_program, by a task that returns Ok; a task that
\* returns an error has not sent Finished; auto_download_with_url returns None
\* exactly when a program was located, and then, or when it returns an error,
\* no task is spawned.
C29_DownloadProgressOrder ==
    /\ IsPrefix(progress_tx, Wanted(chunks))
    /\ (task_ret = "Ok" /\ progress_rx) => progress_tx = Wanted(chunks)
    /\ (progress_tx # <<>> /\ progress_tx[Len(progress_tx)] = "Finished")
          => /\ is_downloaded
             /\ get_program(in_env, is_downloaded) # None
             /\ task_ret = "Ok"
    /\ task_ret = "Err"
          => (task_pc = "done" /\ \A i \in 1..Len(progress_tx) : progress_tx[i] # "Finished")
    /\ download_ret # "none" => ((download_ret = "None") <=> had_program)
    /\ download_ret \in {"none", "None", "Err"}
          => (task_pc = "none" /\ progress_tx = <<>>)

C29_DownloadFinished ==
    /\ download_ret = "Some"
    /\ progress_rx
    /\ task_ret = "Ok"
    /\ progress_tx = <<"Starting", "Downloading", "Downloading", "Extracting", "Finished">>

\* the values the builder puts behind each flag token it generates
FlagValues ==
    [f \in {"-i", "-y", "-f", "-c:a", "-c:v", "-progress"} |->
        CASE f \in {"-i", "-y"} -> FilePaths \cup TempPaths \cup PipePaths
          [] f = "-f" -> Formats
          [] f \in {"-c:a", "-c:v"} -> Codecs
          [] OTHER -> PipePaths]

FlagsFollowedByValues(v) ==
    \A i \in 1..Len(v) :
        v[i] \in DOMAIN FlagValues
            => (i < Len(v) /\ v[i + 1] \in FlagValues[v[i]])

\* C30: in the argument list, and in the argument vector of a spawn, every
\* flag token the builder generates (-i, -y, -f, -c:a, -c:v, -progress) is
\* directly followed by a value of its kind, after every sequence of builder
\* operations.
C30_FlagsKeepTheirValues ==
    /\ FlagsFollowedByValues(inner_args)
    /\ spawned # None => FlagsFollowedByValues(spawned[1].argv)

C30_InsertedBeforePairs ==
    /\ IO
    /\ calls = <<<<"format", <<"-f", "flv">>>>, <<"arg", <<"-c:a", "copy">>>>>>
    /\ inner_args = <<"-c:a", "copy", "-f", "flv", "-y", "x.pipe">>

\* C31: a cursor that is set lies within the argument list, 0 <= cursor <=
\* Len(inner_args); while a stream is described the cursor is not greater than
\* the index of the stream's flag token (-i or -y, the last token but one), so
\* an insertion at the cursor is in range and lands before that token.
C31_CursorInRange ==
    /\ inserting_offset # None
          => (0 <= inserting_offset[1] /\ inserting_offset[1] <= Len(inner_args))
    /\ IO => /\ inserting_offset # None
             /\ Len(inner_args) >= 2
             /\ inner_args[Len(inner_args) - 1] \in {"-i", "-y"}
             /\ inserting_offset[1] <= Len(inner_args) - 2

C31_CursorBetweenModifiers ==
    /\ IO
    /\ seg_prefix = <<"-an">>
    /\ inserting_offset = Some(2)
    /\ Len(inner_args) = 6
    /\ inner_args[3] = "-f"

\* C32, as claimed: on both platforms each endpoint of the channel reads only
\* bytes that the other endpoint wrote, never bytes it wrote itself.
C32_ReadsOnlyPeerBytes ==
    /\ \A i \in 1..Len(listener.got) : listener.got[i].by = "client"
    /\ \A i \in 1..Len(client.got) : client.got[i].by = "listener"

====
